---- MODULE Spec2Model ----
(***************************************************************************)
(* StickerFlow (src/index.tsx): the App component as a state machine.      *)
(*                                                                         *)
(* The React state of App is the model's state; every handler is one       *)
(* action per run-to-completion segment (from its call, or from the        *)
(* settlement of the promise it awaits, to its next await or its end).     *)
(* The remote service, the credential collaborator (window.aistudio) and   *)
(* localStorage are the environment: their answers are drawn with \E.      *)
(*                                                                         *)
(* Conventions                                                             *)
(*   - indices are 1-based: index i of the code is i + 1 here, and         *)
(*     selectedStickerIndex = NoSelection (0) is the code's null;          *)
(*   - UNDEF is JavaScript's undefined (a missing object property);        *)
(*   - Null is the code's null for the two message fields;                 *)
(*   - crypto.randomUUID() returns the identifiers uuid1, uuid2, ... in    *)
(*     turn, none of them twice;                                           *)
(*   - the messages are the code's, written without accents, inverted      *)
(*     marks and backquotes.                                               *)
(***************************************************************************)
EXTENDS Integers, Sequences, FiniteSets, TLC

VARIABLES
  apiKeySelected,        \* useState<boolean>(false)
  prompt,                \* useState<string>('')
  generatedStickers,     \* useState<Sticker[]>([])
  loading,               \* useState<boolean>(false)
  loadingTemplates,      \* useState<boolean>(false)
  error,                 \* useState<string | null>(null)
  infoMessage,           \* useState<string | null>(null)
  selectedStickerIndex,  \* useState<number | null>(null)
  editPrompt,            \* useState<string>('')
  currentTemplates,      \* useState<Template[]>([]): the value set, an array or not
  storage,               \* localStorage under LOCAL_STORAGE_STICKERS_KEY
  tasks,                 \* the async calls in flight, each at its await
  uuids,                 \* how many identifiers crypto.randomUUID has returned
  mounted,               \* the root still renders the component
  last,                  \* what the last step did (handler, branch, requests issued)
  nActions               \* user actions so far (bounded by MaxUserActions)

vars == <<apiKeySelected, prompt, generatedStickers, loading, loadingTemplates,
          error, infoMessage, selectedStickerIndex, editPrompt, currentTemplates,
          storage, tasks, uuids, mounted, last, nActions>>

----------------------------------------------------------------------------
(* Bounds of the model and constants of the program *)

MaxUserActions == 3

MaxCalls == 3

MaxEditingActions == 5

MaxCreatingActions == 4

MaxPolls == 3

NumRequests == 5

Null == "<null>"

UNDEF == "<undefined>"

NoSelection == 0

----------------------------------------------------------------------------
(* Strings *)

\* String.prototype.includes
Includes(s, sub) ==
  \E i \in 1..(Len(s) - Len(sub) + 1) : SubSeq(s, i, i + Len(sub) - 1) = sub

\* String.prototype.startsWith and endsWith
startsWith(s, sub) == Len(sub) <= Len(s) /\ SubSeq(s, 1, Len(sub)) = sub

endsWith(s, sub) == Len(sub) <= Len(s) /\ SubSeq(s, Len(s) - Len(sub) + 1, Len(s)) = sub

\* String.prototype.indexOf and lastIndexOf of one character: the 1-based place of
\* its first and of its last occurrence, 0 (the code's -1) when there is none
indexOf(s, c) ==
  IF \E i \in 1..Len(s) : SubSeq(s, i, i) = c
    THEN CHOOSE i \in 1..Len(s) :
           /\ SubSeq(s, i, i) = c
           /\ \A j \in 1..(i - 1) : SubSeq(s, j, j) # c
    ELSE 0

lastIndexOf(s, c) ==
  IF \E i \in 1..Len(s) : SubSeq(s, i, i) = c
    THEN CHOOSE i \in 1..Len(s) :
           /\ SubSeq(s, i, i) = c
           /\ \A j \in (i + 1)..Len(s) : SubSeq(s, j, j) # c
    ELSE 0

\* The vertical tab U+000B, the one character between the quotes
VerticalTab == ""

\* The white space and line terminators that String.prototype.trim strips, as
\* far as a string of the model can hold them: tab, line feed, vertical tab,
\* form feed, carriage return and space
WhiteSpace == {"\t", "\n", VerticalTab, "\f", "\r", " "}

RECURSIVE TrimStart(_)
TrimStart(s) ==
  IF Len(s) = 0 THEN s
  ELSE IF SubSeq(s, 1, 1) \in WhiteSpace THEN TrimStart(SubSeq(s, 2, Len(s)))
  ELSE s

RECURSIVE TrimEnd(_)
TrimEnd(s) ==
  IF Len(s) = 0 THEN s
  ELSE IF SubSeq(s, Len(s), Len(s)) \in WhiteSpace THEN TrimEnd(SubSeq(s, 1, Len(s) - 1))
  ELSE s

\* String.prototype.trim
Trim(s) == TrimEnd(TrimStart(s))

\* JavaScript truthiness of an optional string property
Truthy(v) == v # UNDEF /\ v # ""

\* a || b on optional strings
OrElse(a, b) == IF Truthy(a) THEN a ELSE b

----------------------------------------------------------------------------
(* Stickers *)

\* interface Sticker: a static sticker as generateStickers / editSticker build it
StaticSticker(id, b64, mime, origB64, origMime) ==
  [id |-> id, isAnimated |-> FALSE,
   base64 |-> b64, mimeType |-> mime,
   originalBase64 |-> origB64, originalMimeType |-> origMime,
   videoDownloadUri |-> UNDEF, videoMimeType |-> UNDEF]

\* interface Sticker: an animated sticker as generateAnimatedSticker builds it
AnimatedSticker(id, uri, mime) ==
  [id |-> id, isAnimated |-> TRUE,
   base64 |-> UNDEF, mimeType |-> UNDEF,
   originalBase64 |-> UNDEF, originalMimeType |-> UNDEF,
   videoDownloadUri |-> uri, videoMimeType |-> mime]

\* {...n} of a number, a string or a boolean entry: no sticker property at all
EmptyObject ==
  [id |-> UNDEF, isAnimated |-> FALSE,
   base64 |-> UNDEF, mimeType |-> UNDEF,
   originalBase64 |-> UNDEF, originalMimeType |-> UNDEF,
   videoDownloadUri |-> UNDEF, videoMimeType |-> UNDEF]

\* canvas.toDataURL('image/webp', 0.8).split(',')[1]: the re-encoded image
resizeAndConvertToWebp(base64Image, originalMimeType) ==
  "webp(" \o base64Image \o ")"

WEBP == "image/webp"

MP4 == "video/mp4"

SeqMap(F(_), s) == [i \in 1..Len(s) |-> F(s[i])]

----------------------------------------------------------------------------
(* Errors thrown by the environment, and the error policy *)

CRED_EXPIRED == "API key expired."

CRED_NOT_FOUND == "Requested entity was not found."

\* e.error.message (shape "api"), e.message of an Error instance (shape "Error"),
\* the string itself (shape "string"), or e.message of any other object
\* (shape "other": neither an Error instance nor an object with error.message)
Err(shape, message) == [shape |-> shape, message |-> message]

\* What a call of the remote service may reject with
Errors ==
  { Err("api", "Requested entity was not found."),
    Err("api", "Quota exceeded."),
    Err("Error", "got status 404: Requested entity was not found."),
    Err("Error", "Failed to fetch"),
    Err("string", "API key expired."),
    Err("other", "API key expired.") }

\* What window.aistudio.hasSelectedApiKey() and openSelectKey() may reject with
CollaboratorErrors == { Err("Error", "The key selector was closed") }

\* What fetch and response.blob() may reject with
FetchErrors == { Err("Error", "Failed to fetch") }

\* new Error('Failed to load image for resizing.') of resizeAndConvertToWebp
ErrResize == Err("Error", "Failed to load image for resizing.")

\* new Error('Failed to get canvas context.') of resizeAndConvertToWebp
ErrNoContext == Err("Error", "Failed to get canvas context.")

\* new Error('Failed to convert image to WebP: ' + error) of
\* resizeAndConvertToWebp, error being what canvas.toDataURL threw
ErrConvert == Err("Error", "Failed to convert image to WebP: Error: encoder unavailable")

\* What the promise of resizeAndConvertToWebp may reject with: the image does not
\* load, the canvas gives no 2d context, canvas.toDataURL throws
ResizeErrors == {ErrResize, ErrNoContext, ErrConvert}

\* The engines whose JSON.parse words its SyntaxError differently
Engines == {"V8", "SpiderMonkey"}

\* The SyntaxError that JSON.parse throws on a text jsonStr of fewer than 21
\* characters that is not JSON: V8 quotes the text in its message, SpiderMonkey
\* names the place of the character only
ErrSyntax(jsonStr, engine) ==
  IF engine = "V8"
    THEN Err("Error", "Unexpected token '" \o SubSeq(jsonStr, 1, 1) \o "', \""
                        \o jsonStr \o "\" is not valid JSON")
    ELSE Err("Error", "JSON.parse: unexpected character at line 1 column 1 of the JSON data")

\* new Error(`HTTP error! status: ${response.status}`) of downloadSingleSticker
ErrHttp == Err("Error", "HTTP error! status: 403")

HasCredentialText(m) == Includes(m, CRED_EXPIRED) \/ Includes(m, CRED_NOT_FOUND)

MsgInvalidKey ==
  "Error: La API Key no es valida o ha expirado. Por favor, selecciona una API Key valida."

\* handleAPIError: the message shown
displayErrorMessage(e, context) ==
  IF e.shape = "api" /\ e.message # ""
    THEN "Error de la API al " \o context \o ": " \o e.message
  ELSE IF e.shape = "Error" /\ e.message # ""
    THEN IF HasCredentialText(e.message)
           THEN MsgInvalidKey
           ELSE "Error al " \o context \o ": " \o e.message
  ELSE IF e.shape = "string"
    THEN IF HasCredentialText(e.message)
           THEN MsgInvalidKey
           ELSE "Error al " \o context \o ": " \o e.message
  ELSE "Error al " \o context \o ": "
         \o (IF e.message # "" THEN e.message ELSE "Error desconocido")

\* handleAPIError: shouldResetApiKey
shouldResetApiKey(e) ==
  \/ e.shape = "api" /\ e.message # "" /\ HasCredentialText(e.message)
  \/ e.shape = "Error" /\ e.message # "" /\ HasCredentialText(e.message)
  \/ e.shape = "string" /\ HasCredentialText(e.message)

\* handleAPIError: whether it calls window.aistudio.openSelectKey()
opensSelectKey(e) ==
  /\ shouldResetApiKey(e)
  /\ e.shape = "api"
  /\ Includes(e.message, CRED_NOT_FOUND)

\* The pending openSelectKey() that handleAPIError awaits
ErrSelTask == [kind |-> "errSel"]

----------------------------------------------------------------------------
(* localStorage and JSON *)

\* localStorage.getItem(LOCAL_STORAGE_STICKERS_KEY) === null: nothing stored
NoItem == [t |-> "none"]

\* the stored text is the empty string
EmptyText == [t |-> "text", parses |-> FALSE, empty |-> TRUE]

\* a stored text that is not JSON, such as "{oops"
GarbageText == [t |-> "text", parses |-> FALSE, empty |-> FALSE]

\* a stored text that is the JSON encoding of value v
JsonText(v) == [t |-> "text", parses |-> TRUE, empty |-> FALSE, value |-> v]

\* JSON values: null, a number, an object that is no array, an array of entries
JNull == [j |-> "null"]

JNumber == [j |-> "number"]

JObject(o) == [j |-> "object", o |-> o]

JArray(items) == [j |-> "array", items |-> items]

\* value.length: the number of entries of an array, undefined (UndefinedLength)
\* for an object that is no array
UndefinedLength == -1

length(v) == IF v.j = "array" THEN Len(v.items) ELSE UndefinedLength

\* JSON.stringify of an array of sticker objects (a property whose value is
\* undefined is left out, and reads back as undefined)
JSONstringify(stickers) ==
  JsonText(JArray([i \in 1..Len(stickers) |-> JObject(stickers[i])]))

\* JSON.parse throws a SyntaxError on a text that is not JSON
JSONparseThrows(text) == ~text.parses

\* JSON.parse of a text that is JSON
JSONparse(text) == text.value

\* if (storedStickers): a stored text that is not the empty string
StoredTruthy(st) == st.t = "text" /\ ~st.empty

\* parsedStickers.map(sticker => sticker.isAnimated ...) throws a TypeError when
\* the parsed value has no map method or an entry is null
MapThrows(v) ==
  \/ v.j # "array"
  \/ \E i \in 1..Len(v.items) : v.items[i].j = "null"

\* The object the map callbacks read: an entry's own properties
EntryObject(entry) == IF entry.j = "object" THEN entry.o ELSE EmptyObject

\* simplifiedSticker with the mimeType of a static sticker left out
Mut_simplifiedSticker(sticker) ==
  IF sticker.isAnimated
    THEN [EmptyObject EXCEPT !.id = sticker.id, !.isAnimated = TRUE,
                             !.videoDownloadUri = sticker.videoDownloadUri,
                             !.videoMimeType = sticker.videoMimeType]
    ELSE [EmptyObject EXCEPT !.id = sticker.id,
                             !.base64 = sticker.base64,
                             !.isAnimated = FALSE]

\* saveStickersToLocalStorage: the object saved for one sticker
simplifiedSticker(sticker) ==
  IF sticker.isAnimated
    THEN [EmptyObject EXCEPT !.id = sticker.id, !.isAnimated = TRUE,
                             !.videoDownloadUri = sticker.videoDownloadUri,
                             !.videoMimeType = sticker.videoMimeType]
    ELSE [EmptyObject EXCEPT !.id = sticker.id,
                             !.base64 = sticker.base64,
                             !.mimeType = sticker.mimeType,
                             !.isAnimated = FALSE]

\* saveStickersToLocalStorage: generatedStickers.map(...)
simplifiedStickers(stickers) == SeqMap(simplifiedSticker, stickers)

\* loadStickersFromLocalStorage: the sticker rebuilt from one parsed entry
rehydrateExplicit(entry) ==
  LET sticker == EntryObject(entry) IN
  IF sticker.isAnimated
    THEN [EmptyObject EXCEPT !.id = sticker.id, !.isAnimated = TRUE,
                             !.videoDownloadUri = sticker.videoDownloadUri,
                             !.videoMimeType = sticker.videoMimeType]
    ELSE [sticker EXCEPT !.isAnimated = FALSE,
                         !.originalBase64 = OrElse(sticker.originalBase64, sticker.base64),
                         !.originalMimeType = OrElse(sticker.originalMimeType, sticker.mimeType)]

\* loadInitialData: the sticker rebuilt from one parsed entry
rehydrateInitial(entry) ==
  LET sticker == EntryObject(entry) IN
  IF sticker.isAnimated
    THEN [sticker EXCEPT !.isAnimated = TRUE]
    ELSE [sticker EXCEPT !.isAnimated = FALSE,
                         !.originalBase64 = OrElse(sticker.originalBase64, sticker.base64),
                         !.originalMimeType = OrElse(sticker.originalMimeType, sticker.mimeType)]

----------------------------------------------------------------------------
(* The component's state as one record, which the handlers transform *)

S ==
  [apiKeySelected |-> apiKeySelected, prompt |-> prompt,
   generatedStickers |-> generatedStickers, loading |-> loading,
   loadingTemplates |-> loadingTemplates, error |-> error,
   infoMessage |-> infoMessage, selectedStickerIndex |-> selectedStickerIndex,
   editPrompt |-> editPrompt, currentTemplates |-> currentTemplates,
   storage |-> storage, tasks |-> tasks, uuids |-> uuids]

\* The tasks without the k-th
RemoveAt(q, k) == [i \in 1..(Len(q) - 1) |-> IF i < k THEN q[i] ELSE q[i + 1]]

\* The k-th task replaced by t
ReplaceAt(q, k, t) == [q EXCEPT ![k] = t]

\* A call of loadInitialData, waiting for window.aistudio.hasSelectedApiKey().
\* cKey and cLen are apiKeySelected and currentTemplates.length of the render
\* whose closure the memoized callback holds; rerun: the call is one the effect
\* made again after the first render's.
InitTask(cKey, cLen) ==
  [kind |-> "init", pc |-> "hasKey", cKey |-> cKey, cLen |-> cLen, rerun |-> FALSE]

\* useEffect(() => { loadInitialData(); }, [loadInitialData]): loadInitialData is
\* re-created, and so called again, when currentTemplates.length has changed
useEffect(old, new) ==
  IF length(new.currentTemplates) # length(old.currentTemplates)
    THEN [new EXCEPT !.tasks =
            Append(@, [InitTask(new.apiKeySelected, length(new.currentTemplates))
                         EXCEPT !.rerun = TRUE])]
    ELSE new

\* The render of state s throws: the main section calls currentTemplates.map, which
\* a value that is no array does not have
renderThrows(s) == s.apiKeySelected /\ s.currentTemplates.j # "array"

\* One step of the component: the handler's result, then the render and its
\* effects. A render that throws is caught by no error boundary: the root unmounts
\* the component, no effect runs and the page stays empty. The calls in flight
\* still run to their end; the state they set is rendered no more.
Apply(new, label) ==
  LET rendered == mounted /\ ~renderThrows(new)
      s == IF rendered THEN useEffect(S, new) ELSE new IN
  /\ mounted' = rendered
  /\ apiKeySelected' = s.apiKeySelected
  /\ prompt' = s.prompt
  /\ generatedStickers' = s.generatedStickers
  /\ loading' = s.loading
  /\ loadingTemplates' = s.loadingTemplates
  /\ error' = s.error
  /\ infoMessage' = s.infoMessage
  /\ selectedStickerIndex' = s.selectedStickerIndex
  /\ editPrompt' = s.editPrompt
  /\ currentTemplates' = s.currentTemplates
  /\ storage' = s.storage
  /\ tasks' = s.tasks
  /\ uuids' = s.uuids
  /\ last' = label

\* A step started by the user (a click, typing)
UserStep ==
  /\ nActions < MaxUserActions
  /\ nActions' = nActions + 1

\* A direct call of a handler
CallStep ==
  /\ mounted
  /\ nActions < MaxCalls
  /\ nActions' = nActions + 1

\* A step started by the environment (a promise settles, a timer fires)
EnvStep == UNCHANGED nActions

Label(op, br) == [op |-> op, br |-> br]

\* The label of a step in which e was thrown
Thrown(label, e) == label @@ [e |-> e]

\* The label of a step of loadInitialData: whether its finally block ran,
\* whether that block read a stored text and replaced the collection by it,
\* whether it failed on a corrupt stored text, whether the call is a re-run by
\* the effect, and whether the step changed the collection
LoadLabel(br, finally, loaded, corrupt, rerun, changed) ==
  [op |-> "loadInitialData", br |-> br, finally |-> finally, loaded |-> loaded,
   corrupt |-> corrupt, rerun |-> rerun, changed |-> changed]

\* window.aistudio.openSelectKey() called by handleAPIError: one more pending
\* call, whatever calls are pending already
openSelectKey(q) == Append(q, ErrSelTask)

\* handleAPIError(e, context), up to its await of openSelectKey()
handleAPIError(s, e, context) ==
  [s EXCEPT !.error = displayErrorMessage(e, context),
            !.infoMessage = Null,
            !.apiKeySelected = IF shouldResetApiKey(e) THEN FALSE ELSE @,
            !.tasks = IF opensSelectKey(e) THEN openSelectKey(@) ELSE @]

----------------------------------------------------------------------------
(* Templates, the startup load and the credential selection *)

Template(name, promptText, icon) == [name |-> name, prompt |-> promptText, icon |-> icon]

T1 == Template("Perro Confundido", "Un perro pug confundido", "dog")

initialViralTemplates == << >>

\* The values that the texts of the template responses are the JSON of: an array
\* of no template, an array of one, and an object that is no array
TemplateValues == {JArray(<< >>), JArray(<<T1>>), JObject(EmptyObject)}

templateText(template) ==
  "{\"name\":\"" \o template.name \o "\",\"prompt\":\"" \o template.prompt
    \o "\",\"icon\":\"" \o template.icon \o "\"}"

RECURSIVE templateTexts(_)
templateTexts(items) ==
  IF items = << >> THEN ""
  ELSE IF Len(items) = 1 THEN templateText(items[1])
  ELSE templateText(items[1]) \o "," \o templateTexts(Tail(items))

\* The JSON text of a value of TemplateValues
JSONtext(v) == IF v.j = "array" THEN "[" \o templateTexts(v.items) \o "]" ELSE "{}"

\* JSON.parse of a string: it throws unless the string is the JSON text of a value
parseThrows(str) == \A v \in TemplateValues : JSONtext(v) # str

parse(str) == CHOOSE v \in TemplateValues : JSONtext(v) = str

\* response.text of the template request: the JSON of an array, the same between
\* two lines of other text, the JSON of an object, and a sentence that is no JSON,
\* the text of a credential error
TemplateTexts ==
  { "[]",
    "Plantillas:\n" \o JSONtext(JArray(<<T1>>)) \o "\nFin.",
    "{}",
    CRED_EXPIRED }


\* generateMoreTemplates: jsonStr, response.text trimmed and cut to its brackets
jsonStr(text) ==
  LET trimmed == Trim(text)
      firstBracket == indexOf(trimmed, "[")
      cut == IF ~startsWith(trimmed, "[") /\ ~startsWith(trimmed, "{") /\ firstBracket # 0
               THEN SubSeq(trimmed, firstBracket, Len(trimmed))
               ELSE trimmed
      lastBracket == lastIndexOf(cut, "]")
  IN IF ~endsWith(cut, "]") /\ ~endsWith(cut, "}") /\ lastBracket # 0
       THEN SubSeq(cut, 1, lastBracket)
       ELSE cut

MsgNoKeyTemplates == "Por favor, selecciona una API Key antes de generar plantillas."

InfoTemplatesLoading == "Cargando plantillas virales..."

InfoTemplatesGenerating == "Generando 20 plantillas virales nuevas..."

InfoTemplatesLoaded == "Plantillas cargadas con exito."

InfoTemplatesGenerated == "Plantillas generadas con exito."

MsgInitialCorrupt == "Error al cargar stickers guardados (datos corruptos)."

\* A call of generateMoreTemplates from the button, waiting for generateContent
TplTask(isInitialLoad) == [kind |-> "tpl", isInitialLoad |-> isInitialLoad]

\* generateMoreTemplates: whether the call passes its credential check; key is
\* apiKeySelected as the calling closure holds it
templatesRequestIssued(key) == key

\* generateMoreTemplates, from its call to its await of generateContent
generateMoreTemplates(s, key, isInitialLoad) ==
  IF ~templatesRequestIssued(key)
    THEN [s EXCEPT !.error = MsgNoKeyTemplates]
    ELSE [s EXCEPT !.loadingTemplates = TRUE,
                   !.error = Null,
                   !.infoMessage = IF isInitialLoad THEN InfoTemplatesLoading
                                   ELSE InfoTemplatesGenerating]

\* onClick of the regenerate button: generateMoreTemplates(false)
regenerateTemplates(s) ==
  IF templatesRequestIssued(s.apiKeySelected)
    THEN [generateMoreTemplates(s, s.apiKeySelected, FALSE) EXCEPT
            !.tasks = Append(@, TplTask(FALSE))]
    ELSE generateMoreTemplates(s, s.apiKeySelected, FALSE)

\* For each text of TemplateTexts: jsonStr, whether JSON.parse(jsonStr) throws,
\* and newTemplates, the value it returns when it does not
templatesParsed ==
  [text \in TemplateTexts |->
     LET str == jsonStr(text) IN
     [jsonStr |-> str,
      throws |-> parseThrows(str),
      newTemplates |-> IF parseThrows(str) THEN JNull ELSE parse(str)]]

\* What the template request may answer, and the engine the page runs on, which
\* shows only when JSON.parse throws
TemplateResponses ==
  {r \in [text : TemplateTexts, engine : Engines] :
     r.engine = "V8" \/ templatesParsed[r.text].throws}

\* generateMoreTemplates, from the response to its end
generateMoreTemplatesResolved(s, response, isInitialLoad) ==
  LET parsed == templatesParsed[response.text]
      r == IF parsed.throws
             THEN handleAPIError(s, ErrSyntax(parsed.jsonStr, response.engine),
                                 "generar plantillas")
             ELSE [s EXCEPT !.currentTemplates = parsed.newTemplates,
                            !.infoMessage = IF isInitialLoad THEN InfoTemplatesLoaded
                                            ELSE InfoTemplatesGenerated]
  IN [r EXCEPT !.loadingTemplates = FALSE]

\* generateMoreTemplates, from the rejection of generateContent to its end
generateMoreTemplatesRejected(s, e) ==
  [handleAPIError(s, e, "generar plantillas") EXCEPT !.loadingTemplates = FALSE]

\* loadInitialData: its finally block, the startup load of the stored stickers
loadInitialDataFinally(s) ==
  IF StoredTruthy(s.storage)
    THEN IF JSONparseThrows(s.storage) \/ MapThrows(JSONparse(s.storage))
           THEN [s EXCEPT !.error = MsgInitialCorrupt, !.storage = NoItem]
           ELSE [s EXCEPT !.generatedStickers =
                            SeqMap(rehydrateInitial, JSONparse(s.storage).items)]
    ELSE s

\* loadInitialData, from the answer of hasSelectedApiKey to its next await or its
\* end; k is the task's place
loadInitialDataHasKey(s, k, hasKey) ==
  LET t  == s.tasks[k]
      s1 == [s EXCEPT !.apiKeySelected = hasKey]
  IN IF hasKey /\ t.cLen = 0
       THEN IF templatesRequestIssued(t.cKey)
              THEN [generateMoreTemplates(s1, t.cKey, TRUE) EXCEPT
                      !.tasks = ReplaceAt(@, k, [t EXCEPT !.pc = "tpl"])]
              ELSE loadInitialDataFinally(
                     [generateMoreTemplates(s1, t.cKey, TRUE) EXCEPT
                        !.tasks = RemoveAt(@, k)])
       ELSE loadInitialDataFinally([s1 EXCEPT !.tasks = RemoveAt(@, k)])

\* loadInitialData: its catch block, then its finally block
loadInitialDataRejected(s, k, e) ==
  LET s1 == handleAPIError([s EXCEPT !.tasks = RemoveAt(@, k)], e,
                           "verificar estado de API Key")
  IN loadInitialDataFinally([s1 EXCEPT !.apiKeySelected = FALSE])

\* loadInitialData, from the settlement of its template request to its end
loadInitialDataTemplates(s, k, settled) ==
  LET s1 == [s EXCEPT !.tasks = RemoveAt(@, k)]
      s2 == IF settled.rejected
              THEN generateMoreTemplatesRejected(s1, settled.e)
              ELSE generateMoreTemplatesResolved(s1, settled.response, TRUE)
  IN loadInitialDataFinally(s2)


\* What a settled promise carries: the value it resolved with, or the error
Resolved(v) == [rejected |-> FALSE, response |-> v, e |-> Err("none", "")]

Rejected(e) == [rejected |-> TRUE, response |-> [text |-> "", engine |-> "V8"], e |-> e]

SettledTemplates ==
  {Resolved(r) : r \in TemplateResponses} \cup {Rejected(e) : e \in Errors}

----------------------------------------------------------------------------
(* Animated stickers: generateAnimatedSticker *)

MsgNoPromptAnimated == "Por favor, introduce un prompt para generar el sticker animado."

MsgNoKeyAnimated ==
  "La generacion de stickers animados (video) requiere que selecciones una API Key. "
    \o "La API de Gemini para generacion de video ('Veo') tiene costos asociados a su uso. "
    \o "Por favor, selecciona una API Key valida."

MsgNoAnimated == "No se pudo generar el sticker animado. Intentalo con un prompt diferente."

InfoAnimating ==
  "Generando sticker animado (video MP4)... Esto puede tardar varios minutos. "
    \o "Por favor, no cierres la pagina."

InfoAnimated == "Sticker animado (MP4) generado con exito! Puedes descargarlo."

\* A call of generateAnimatedSticker: waiting for generateVideos (pc "start"), for
\* the 10 s timer (pc "delay") or for getVideosOperation
\* (pc "poll"); before is generatedStickers of the calling render
VidTask(before) ==
  [kind |-> "vid", pc |-> "start", notDone |-> 0, delays |-> 0, polls |-> 0,
   before |-> before]

\* generateAnimatedSticker, from setLoading(true) to its await of generateVideos
generateAnimatedStickerStart(s) ==
  [s EXCEPT !.loading = TRUE,
            !.error = Null,
            !.infoMessage = InfoAnimating,
            !.tasks = Append(@, VidTask(s.generatedStickers))]

\* A call of handleSelectApiKey, waiting for window.aistudio.openSelectKey();
\* cKey and cLen are apiKeySelected and currentTemplates.length of the calling
\* render, caller is "button" or "animated" (generateAnimatedSticker awaits it)
SelTask(cKey, cLen, caller) ==
  [kind |-> "sel", pc |-> "open", cKey |-> cKey, cLen |-> cLen, caller |-> caller]

\* handleSelectApiKey, from its call to its await
handleSelectApiKey(s, caller) ==
  [s EXCEPT !.tasks = Append(@, SelTask(s.apiKeySelected, length(s.currentTemplates), caller))]

\* What follows the end of handleSelectApiKey: nothing for the button; in
\* generateAnimatedSticker, "if (!apiKeySelected) return;" on the closure's value
afterSelectApiKey(s, t) ==
  IF t.caller = "animated" /\ t.cKey
    THEN generateAnimatedStickerStart(s)
    ELSE s

\* handleSelectApiKey, from the resolution of openSelectKey to its next await or end
handleSelectApiKeyResolved(s, k) ==
  LET t  == s.tasks[k]
      s1 == [s EXCEPT !.apiKeySelected = TRUE, !.error = Null, !.infoMessage = Null]
  IN IF t.cLen = 0
       THEN IF templatesRequestIssued(t.cKey)
              THEN [generateMoreTemplates(s1, t.cKey, TRUE) EXCEPT
                      !.tasks = ReplaceAt(@, k, [t EXCEPT !.pc = "tpl"])]
              ELSE afterSelectApiKey(
                     [generateMoreTemplates(s1, t.cKey, TRUE) EXCEPT
                        !.tasks = RemoveAt(@, k)], t)
       ELSE afterSelectApiKey([s1 EXCEPT !.tasks = RemoveAt(@, k)], t)

\* handleSelectApiKey: its catch block
handleSelectApiKeyRejected(s, k, e) ==
  LET t  == s.tasks[k]
      s1 == handleAPIError([s EXCEPT !.tasks = RemoveAt(@, k)], e,
                           "abrir el selector de API Key")
  IN afterSelectApiKey([s1 EXCEPT !.apiKeySelected = FALSE], t)

\* handleSelectApiKey, from the settlement of its template request to its end
handleSelectApiKeyTemplates(s, k, settled) ==
  LET t  == s.tasks[k]
      s1 == [s EXCEPT !.tasks = RemoveAt(@, k)]
      s2 == IF settled.rejected
              THEN generateMoreTemplatesRejected(s1, settled.e)
              ELSE generateMoreTemplatesResolved(s1, settled.response, TRUE)
  IN afterSelectApiKey(s2, t)

animatedPromptOk(s) == Trim(s.prompt) # ""

\* generateAnimatedSticker, from its call to its first await
generateAnimatedSticker(s) ==
  IF ~animatedPromptOk(s)
    THEN [s EXCEPT !.error = MsgNoPromptAnimated]
  ELSE IF ~s.apiKeySelected
    THEN handleSelectApiKey([s EXCEPT !.error = MsgNoKeyAnimated], "animated")
  ELSE generateAnimatedStickerStart(s)


IdName(n) == "uuid" \o ToString(n)

\* crypto.randomUUID(): the identifier it returns in state s, which no earlier
\* call has returned; the call is counted by drawUUID
randomUUID(s) == IdName(s.uuids + 1)

drawUUID(s) == [s EXCEPT !.uuids = @ + 1]

\* operations as generateVideos and getVideosOperation report them:
\* operation.done and operation.response?.generatedVideos?.[0]?.video?.uri
Operation(done, uri) == [done |-> done, uri |-> uri]

VIDEO_URI == "https://host/video.mp4?alt=media"

Operations ==
  { Operation(FALSE, UNDEF), Operation(TRUE, VIDEO_URI), Operation(TRUE, UNDEF) }

\* generateAnimatedStickerDone leaving the busy flag set when the finished job
\* holds no video
Mut_generateAnimatedStickerDone(s, operation) ==
  LET downloadLink == operation.uri IN
  IF Truthy(downloadLink)
    THEN [drawUUID(s) EXCEPT
            !.generatedStickers =
              Append(@, AnimatedSticker(randomUUID(s), downloadLink, MP4)),
            !.error = Null,
            !.infoMessage = InfoAnimated,
            !.loading = FALSE]
    ELSE [s EXCEPT !.error = MsgNoAnimated, !.infoMessage = Null]

\* generateAnimatedSticker: after the polling loop, to its end
generateAnimatedStickerDone(s, operation) ==
  LET downloadLink == operation.uri
      r == IF Truthy(downloadLink)
             THEN [drawUUID(s) EXCEPT
                     !.generatedStickers =
                       Append(@, AnimatedSticker(randomUUID(s), downloadLink, MP4)),
                     !.error = Null,
                     !.infoMessage = InfoAnimated]
             ELSE [s EXCEPT !.error = MsgNoAnimated, !.infoMessage = Null]
  IN [r EXCEPT !.loading = FALSE]

\* generateAnimatedSticker: "while (!operation.done)" on a reported operation; k is
\* the task's place. Not done: the info message is set again and the 10 s timer
\* started. Done: the loop is left.
generateAnimatedStickerReport(s, k, operation) ==
  LET t == s.tasks[k] IN
  IF ~operation.done
    THEN [s EXCEPT !.infoMessage = InfoAnimating,
                   !.tasks = ReplaceAt(@, k, [t EXCEPT !.pc = "delay",
                                                       !.notDone = @ + 1])]
    ELSE generateAnimatedStickerDone([s EXCEPT !.tasks = RemoveAt(@, k)], operation)

\* generateAnimatedStickerPoll polling again without waiting for the delay
Mut_generateAnimatedStickerPoll(s, k) ==
  [s EXCEPT !.tasks = ReplaceAt(@, k, [s.tasks[k] EXCEPT !.pc = "poll",
                                                         !.polls = @ + 1])]

\* generateAnimatedSticker: the timer fires and getVideosOperation is called
generateAnimatedStickerPoll(s, k) ==
  [s EXCEPT !.tasks = ReplaceAt(@, k, [s.tasks[k] EXCEPT !.pc = "poll",
                                                         !.delays = @ + 1,
                                                         !.polls = @ + 1])]

\* generateAnimatedSticker: its catch block and its finally block
generateAnimatedStickerRejected(s, k, e) ==
  LET s1 == handleAPIError([s EXCEPT !.tasks = RemoveAt(@, k)], e, "generar sticker animado")
      s2 == [s1 EXCEPT !.infoMessage = Null,
                       !.apiKeySelected =
                          IF e.shape = "api" /\ Includes(e.message, CRED_NOT_FOUND)
                            THEN FALSE ELSE @]
  IN [s2 EXCEPT !.loading = FALSE]

----------------------------------------------------------------------------
(* Static stickers: generateStickers *)

MsgNoPrompt == "Por favor, introduce un prompt para generar stickers."

MsgNoKeyStickers == "Por favor, selecciona una API Key antes de generar stickers."

MsgNoneGenerated == "No se pudieron generar stickers. Intentalo con un prompt diferente."

InfoGenerating == "Generando 5 stickers estaticos... esto puede tardar unos segundos."

InfoGenerated == "Stickers estaticos generados con exito!"

\* response.candidates?.[0]?.content?.parts?.[0]?.inlineData of a response
ImagePart(data, mimeType) == [present |-> TRUE, data |-> data, mimeType |-> mimeType]

NoImagePart == [present |-> FALSE, data |-> UNDEF, mimeType |-> UNDEF]

\* The image every generation response carries, when it carries one
GeneratedPart == ImagePart("imgA", "image/png")

\* The images an edit or a background removal may answer with
EditedParts == { ImagePart("imgB", "image/jpeg"), ImagePart("imgC", "image/png") }

\* if (imagePart && imagePart.data && imagePart.mimeType)
hasImage(imagePart) ==
  imagePart.present /\ Truthy(imagePart.data) /\ Truthy(imagePart.mimeType)

\* A call of generateStickers, waiting for Promise.all of its NumRequests requests;
\* before is generatedStickers of the calling render
GenTask(before) == [kind |-> "gen", pc |-> "requests", before |-> before]

\* The call after Promise.all has resolved, in the loop over the responses and
\* waiting for resizeAndConvertToWebp of one of them: outcome is how the requests
\* ended, newStickers the stickers pushed so far
GenResizing(before, outcome, newStickers) ==
  [kind |-> "gen", pc |-> "resize", before |-> before, outcome |-> outcome,
   newStickers |-> newStickers]

\* How the NumRequests requests of one call end: images of them answer with an
\* image, noImage without one, rejected are rejected
RequestOutcomes ==
  { [images |-> i, noImage |-> NumRequests - i, rejected |-> 0] :
      i \in 0..NumRequests }
  \cup { [images |-> i, noImage |-> 0, rejected |-> NumRequests - i] :
            i \in 0..(NumRequests - 1) }

generateStickersOk(s) == Trim(s.prompt) # "" /\ s.apiKeySelected

\* generateStickers, from its call to its await of Promise.all
generateStickers(s) ==
  IF Trim(s.prompt) = ""
    THEN [s EXCEPT !.error = MsgNoPrompt]
  ELSE IF ~s.apiKeySelected
    THEN [s EXCEPT !.error = MsgNoKeyStickers]
  ELSE [s EXCEPT !.loading = TRUE,
                 !.error = Null,
                 !.infoMessage = InfoGenerating,
                 !.generatedStickers = << >>,
                 !.selectedStickerIndex = NoSelection,
                 !.editPrompt = "",
                 !.tasks = Append(@, GenTask(s.generatedStickers))]

\* generateStickers: the sticker pushed for one response with an image
newSticker(id, imagePart) ==
  StaticSticker(id, resizeAndConvertToWebp(imagePart.data, imagePart.mimeType), WEBP,
                imagePart.data, imagePart.mimeType)

\* generateStickers: after the loop over the responses, to the end of the handler
generateStickersEnd(s, newStickers) ==
  LET r == IF Len(newStickers) = 0
             THEN [s EXCEPT !.error = MsgNoneGenerated, !.infoMessage = Null]
             ELSE [s EXCEPT !.infoMessage = InfoGenerated]
  IN [r EXCEPT !.generatedStickers = newStickers, !.loading = FALSE]

\* generateStickers: its catch block and its finally block
generateStickersRejected(s, e) ==
  [handleAPIError(s, e, "generar stickers") EXCEPT !.loading = FALSE]

\* Promise.all(generationPromises) rejects as soon as one request is rejected
promiseAllRejects(outcome) == outcome.rejected > 0

\* generateStickers, Promise.all having resolved: into the loop over the
\* responses, to its await of resizeAndConvertToWebp for the first response that
\* carries an image, or, none carrying one, to the end of the handler
generateStickersResolved(s, k, outcome) ==
  IF outcome.images = 0
    THEN generateStickersEnd([s EXCEPT !.tasks = RemoveAt(@, k)], << >>)
    ELSE [s EXCEPT !.tasks = ReplaceAt(@, k, GenResizing(s.tasks[k].before, outcome, << >>))]

\* generateStickers, from the settlement of Promise.all; e is the error of the
\* first rejected request
generateStickersSettled(s, k, outcome, e) ==
  IF promiseAllRejects(outcome)
    THEN generateStickersRejected([s EXCEPT !.tasks = RemoveAt(@, k)], e)
    ELSE generateStickersResolved(s, k, outcome)

\* generateStickers: resizeAndConvertToWebp resolves for the response waited for.
\* Its sticker is pushed; the loop goes on to the next response that carries an
\* image, or, there being none, the handler runs to its end
generateStickersResized(s, k) ==
  LET t == s.tasks[k]
      newStickers == Append(t.newStickers, newSticker(randomUUID(s), GeneratedPart))
      s1 == drawUUID(s)
  IN IF Len(newStickers) < t.outcome.images
       THEN [s1 EXCEPT !.tasks = ReplaceAt(@, k, GenResizing(t.before, t.outcome, newStickers))]
       ELSE generateStickersEnd([s1 EXCEPT !.tasks = RemoveAt(@, k)], newStickers)

\* generateStickers: resizeAndConvertToWebp rejects with e, which its catch block
\* handles
generateStickersResizeRejected(s, k, e) ==
  generateStickersRejected([s EXCEPT !.tasks = RemoveAt(@, k)], e)

----------------------------------------------------------------------------
(* editSticker and removeBackground *)

MsgNoSelectionEdit == "No hay un sticker seleccionado para editar."

MsgAnimatedEdit ==
  "No se pueden editar stickers animados directamente. "
    \o "Esta funcion es solo para imagenes estaticas."

MsgNoEditPrompt == "Por favor, introduce un prompt para editar el sticker."

MsgNoKeyEdit == "Por favor, selecciona una API Key antes de editar stickers."

MsgEditFailed == "No se pudo editar el sticker. Intentalo de nuevo."

InfoEditing == "Aplicando edicion al sticker seleccionado..."

InfoEdited == "Edicion aplicada con exito!"

MsgNoSelectionBg == "No hay un sticker seleccionado para eliminar el fondo."

MsgAnimatedBg ==
  "No se puede eliminar el fondo de stickers animados. "
    \o "Esta funcion es solo para imagenes estaticas."

MsgNoKeyBg == "Por favor, selecciona una API Key antes de eliminar el fondo."

MsgBgFailed == "No se pudo eliminar el fondo del sticker. Intentalo de nuevo."

InfoRemoving == "Eliminando el fondo del sticker seleccionado..."

InfoRemoved == "Fondo eliminado con exito!"

\* selectedStickerIndex === null || !generatedStickers[selectedStickerIndex]
noStickerSelected(s) ==
  \/ s.selectedStickerIndex = NoSelection
  \/ s.selectedStickerIndex > Len(s.generatedStickers)

\* A call of editSticker (kind "edit") or removeBackground (kind "rmbg"), waiting
\* for generateContent, with what its closure holds: generatedStickers,
\* selectedStickerIndex and stickerToEdit of the render it was called in
EditTask(kind, s) ==
  [kind |-> kind,
   pc |-> "request",
   imagePart |-> NoImagePart,
   snapshot |-> s.generatedStickers,
   index |-> s.selectedStickerIndex,
   stickerToEdit |-> s.generatedStickers[s.selectedStickerIndex]]

editStickerOk(s) ==
  /\ ~noStickerSelected(s)
  /\ ~s.generatedStickers[s.selectedStickerIndex].isAnimated
  /\ Trim(s.editPrompt) # ""
  /\ s.apiKeySelected

\* editSticker without its check of apiKeySelected
Mut_editSticker(s) ==
  IF noStickerSelected(s)
    THEN [s EXCEPT !.error = MsgNoSelectionEdit]
  ELSE IF s.generatedStickers[s.selectedStickerIndex].isAnimated
    THEN [s EXCEPT !.error = MsgAnimatedEdit]
  ELSE IF Trim(s.editPrompt) = ""
    THEN [s EXCEPT !.error = MsgNoEditPrompt]
  ELSE [s EXCEPT !.loading = TRUE,
                 !.error = Null,
                 !.infoMessage = InfoEditing,
                 !.tasks = Append(@, EditTask("edit", s))]

\* editSticker, from its call to its await of generateContent
editSticker(s) ==
  IF noStickerSelected(s)
    THEN [s EXCEPT !.error = MsgNoSelectionEdit]
  ELSE IF s.generatedStickers[s.selectedStickerIndex].isAnimated
    THEN [s EXCEPT !.error = MsgAnimatedEdit]
  ELSE IF Trim(s.editPrompt) = ""
    THEN [s EXCEPT !.error = MsgNoEditPrompt]
  ELSE IF ~s.apiKeySelected
    THEN [s EXCEPT !.error = MsgNoKeyEdit]
  ELSE [s EXCEPT !.loading = TRUE,
                 !.error = Null,
                 !.infoMessage = InfoEditing,
                 !.tasks = Append(@, EditTask("edit", s))]

removeBackgroundOk(s) ==
  /\ ~noStickerSelected(s)
  /\ ~s.generatedStickers[s.selectedStickerIndex].isAnimated
  /\ s.apiKeySelected

\* removeBackground without its check of apiKeySelected
Mut_removeBackground(s) ==
  IF noStickerSelected(s)
    THEN [s EXCEPT !.error = MsgNoSelectionBg]
  ELSE IF s.generatedStickers[s.selectedStickerIndex].isAnimated
    THEN [s EXCEPT !.error = MsgAnimatedBg]
  ELSE [s EXCEPT !.loading = TRUE,
                 !.error = Null,
                 !.infoMessage = InfoRemoving,
                 !.tasks = Append(@, EditTask("rmbg", s))]

\* removeBackground, from its call to its await of generateContent
removeBackground(s) ==
  IF noStickerSelected(s)
    THEN [s EXCEPT !.error = MsgNoSelectionBg]
  ELSE IF s.generatedStickers[s.selectedStickerIndex].isAnimated
    THEN [s EXCEPT !.error = MsgAnimatedBg]
  ELSE IF ~s.apiKeySelected
    THEN [s EXCEPT !.error = MsgNoKeyBg]
  ELSE [s EXCEPT !.loading = TRUE,
                 !.error = Null,
                 !.infoMessage = InfoRemoving,
                 !.tasks = Append(@, EditTask("rmbg", s))]

\* editedSticker keeping the original image of the sticker it replaces
Mut_editedSticker(stickerToEdit, imagePart) ==
  StaticSticker(stickerToEdit.id,
                resizeAndConvertToWebp(imagePart.data, imagePart.mimeType), WEBP,
                stickerToEdit.originalBase64, stickerToEdit.originalMimeType)

\* editSticker / removeBackground: the sticker written at the edited index
editedSticker(stickerToEdit, imagePart) ==
  StaticSticker(stickerToEdit.id,
                resizeAndConvertToWebp(imagePart.data, imagePart.mimeType), WEBP,
                imagePart.data, imagePart.mimeType)

\* editSticker / removeBackground: updatedStickers, the closure's collection with
\* the edited index replaced
updatedStickers(t, imagePart) ==
  [t.snapshot EXCEPT ![t.index] = editedSticker(t.stickerToEdit, imagePart)]

\* editSticker / removeBackground, from the response: with an image, to the
\* await of resizeAndConvertToWebp; without one, to the end of the handler
editResolved(s, k, imagePart) ==
  LET t == s.tasks[k] IN
  IF hasImage(imagePart)
    THEN [s EXCEPT !.tasks = ReplaceAt(@, k, [t EXCEPT !.pc = "resize",
                                                        !.imagePart = imagePart])]
    ELSE [s EXCEPT !.tasks = RemoveAt(@, k),
                   !.error = IF t.kind = "edit" THEN MsgEditFailed ELSE MsgBgFailed,
                   !.infoMessage = Null,
                   !.loading = FALSE]

\* editSticker / removeBackground: resizeAndConvertToWebp resolves, to the end of
\* the handler
editResized(s, k) ==
  LET t == s.tasks[k] IN
  [s EXCEPT !.tasks = RemoveAt(@, k),
            !.generatedStickers = updatedStickers(t, t.imagePart),
            !.infoMessage = IF t.kind = "edit" THEN InfoEdited ELSE InfoRemoved,
            !.loading = FALSE]

\* editSticker / removeBackground: the catch block and the finally block
editRejected(s, k, e) ==
  LET t  == s.tasks[k]
      s1 == [s EXCEPT !.tasks = RemoveAt(@, k)]
      context == IF t.kind = "edit" THEN "editar sticker" ELSE "eliminar fondo del sticker"
  IN [handleAPIError(s1, e, context) EXCEPT !.infoMessage = Null, !.loading = FALSE]

----------------------------------------------------------------------------
(* Downloads *)

MsgDownloadMissing == "No se pudo descargar el sticker. Informacion faltante."

MsgNothingToDownload == "No hay stickers para descargar."

InfoDownloadingAll == "Descargando todos los stickers..."

InfoDownloadedAll ==
  "Se han descargado todos tus stickers. "
    \o "Para usarlos como un paquete en WhatsApp, necesitaras una aplicacion de terceros "
    \o "que permita crear packs de stickers a partir de tus imagenes/videos "
    \o "(ej. \"Sticker Maker Studio\"). "
    \o "Los stickers animados se descargan como MP4, compatibles con WhatsApp."

InfoPreparing(index) == "Preparando descarga de sticker " \o ToString(index) \o "..."

InfoDownloadedAnimated(index) == "Sticker animado " \o ToString(index) \o " descargado."

InfoDownloadedStatic(index) == "Sticker estatico " \o ToString(index) \o " descargado."

\* A call of downloadSingleSticker, waiting for fetch and response.blob();
\* index is the sticker's number as shown (the code's index + 1)
FetchTask(index) == [kind |-> "fetch", pc |-> "fetch", index |-> index]

\* downloadSingleSticker, from its call to its await of fetch, or to its end
downloadSingleSticker(s, sticker, index) ==
  LET s1 == [s EXCEPT !.infoMessage = InfoPreparing(index)] IN
  IF sticker.isAnimated /\ Truthy(sticker.videoDownloadUri)
    THEN [s1 EXCEPT !.tasks = Append(@, FetchTask(index))]
  ELSE IF ~sticker.isAnimated /\ Truthy(sticker.base64) /\ Truthy(sticker.mimeType)
    THEN [s1 EXCEPT !.infoMessage = InfoDownloadedStatic(index)]
  ELSE [s1 EXCEPT !.error = MsgDownloadMissing, !.infoMessage = Null]

\* downloadSingleSticker, from the answer of fetch (ok: response.ok) to its await
\* of response.blob(), or, the answer not being ok, through its throw to the end
\* of its catch block
downloadFetched(s, k, ok) ==
  LET t == s.tasks[k] IN
  IF ok
    THEN [s EXCEPT !.tasks = ReplaceAt(@, k, [t EXCEPT !.pc = "blob"])]
    ELSE [handleAPIError([s EXCEPT !.tasks = RemoveAt(@, k)], ErrHttp, "descargar sticker")
            EXCEPT !.infoMessage = Null]

\* downloadSingleSticker, from the answer of response.blob() to its end
downloadBlob(s, k) ==
  [s EXCEPT !.tasks = RemoveAt(@, k),
            !.infoMessage = InfoDownloadedAnimated(s.tasks[k].index)]

\* downloadSingleSticker: its catch block, for a rejected fetch or blob()
downloadRejected(s, k, e) ==
  [handleAPIError([s EXCEPT !.tasks = RemoveAt(@, k)], e, "descargar sticker")
     EXCEPT !.infoMessage = Null]

RECURSIVE downloadEach(_, _, _)
\* generatedStickers.forEach((sticker, index) => downloadSingleSticker(sticker, index))
downloadEach(s, stickers, i) ==
  IF i > Len(stickers) THEN s
  ELSE downloadEach(downloadSingleSticker(s, stickers[i], i), stickers, i + 1)

\* downloadAllStickers
downloadAllStickers(s) ==
  IF Len(s.generatedStickers) = 0
    THEN [s EXCEPT !.error = MsgNothingToDownload]
    ELSE [downloadEach([s EXCEPT !.infoMessage = InfoDownloadingAll],
                       s.generatedStickers, 1)
            EXCEPT !.infoMessage = InfoDownloadedAll]

----------------------------------------------------------------------------
(* Saving, loading and clearing the stored collection *)

InfoSaved == "Stickers guardados exitosamente en el navegador!"

MsgSaveQuota ==
  "Error al guardar stickers: Se ha excedido la cuota de almacenamiento del navegador. "
    \o "Por favor, borra los stickers guardados anteriormente o reduce la cantidad de "
    \o "stickers a guardar."

MsgSaveFailed == "Error al guardar stickers en el navegador."

MsgNothingSaved == "No hay stickers guardados para cargar."

MsgLoadCorrupt == "Error al cargar stickers del navegador (posiblemente datos corruptos)."

InfoLoaded(n) == "Se han cargado " \o ToString(n) \o " stickers guardados."

InfoCleared == "Stickers guardados borrados."

MsgClearFailed == "Error al borrar stickers guardados del navegador."

\* What localStorage.setItem may do: store the text, or throw QuotaExceededError
\* or another exception
SetItemOutcomes == {"stored", "QuotaExceededError", "SecurityError"}

\* The text saveStickersToLocalStorage writes
savedText(stickers) == JSONstringify(simplifiedStickers(stickers))

\* saveStickersToLocalStorage
saveStickersToLocalStorage(s, outcome) ==
  IF outcome = "stored"
    THEN [s EXCEPT !.storage = savedText(s.generatedStickers),
                   !.error = Null,
                   !.infoMessage = InfoSaved]
  ELSE IF outcome = "QuotaExceededError"
    THEN [s EXCEPT !.error = MsgSaveQuota, !.infoMessage = Null]
  ELSE [s EXCEPT !.error = MsgSaveFailed, !.infoMessage = Null]

\* loadStickersFromLocalStorage: rehydratedStickers
rehydratedStickers(text) == SeqMap(rehydrateExplicit, JSONparse(text).items)

\* loadStickersFromLocalStorage: whether its try block throws
loadThrows(st) == JSONparseThrows(st) \/ MapThrows(JSONparse(st))

\* loadStickersAbsent resetting the collection and the selection as a load does
Mut_loadStickersAbsent(s) ==
  [s EXCEPT !.generatedStickers = << >>,
            !.selectedStickerIndex = NoSelection,
            !.editPrompt = "",
            !.error = MsgNothingSaved,
            !.infoMessage = Null]

\* loadStickersFromLocalStorage: its else branch, nothing is stored
loadStickersAbsent(s) == [s EXCEPT !.error = MsgNothingSaved, !.infoMessage = Null]

\* loadStickersFromLocalStorage
loadStickersFromLocalStorage(s) ==
  IF StoredTruthy(s.storage)
    THEN IF loadThrows(s.storage)
           THEN [s EXCEPT !.error = MsgLoadCorrupt,
                          !.infoMessage = Null,
                          !.storage = NoItem]
           ELSE [s EXCEPT !.generatedStickers = rehydratedStickers(s.storage),
                          !.selectedStickerIndex = NoSelection,
                          !.editPrompt = "",
                          !.error = Null,
                          !.infoMessage = InfoLoaded(Len(rehydratedStickers(s.storage)))]
    ELSE loadStickersAbsent(s)

\* clearSavedStickers (confirmed: the answer of confirm(); throws: removeItem throws)
clearSavedStickers(s, confirmed, throws) ==
  IF ~confirmed THEN s
  ELSE IF throws
    THEN [s EXCEPT !.error = MsgClearFailed, !.infoMessage = Null]
  ELSE [s EXCEPT !.storage = NoItem,
                 !.generatedStickers = << >>,
                 !.selectedStickerIndex = NoSelection,
                 !.editPrompt = "",
                 !.error = Null,
                 !.infoMessage = InfoCleared]

----------------------------------------------------------------------------
(* The small handlers of the page *)

InfoEditCancelled == "Edicion cancelada."

InfoTemplateSelected(templatePrompt) ==
  "Plantilla \"" \o templatePrompt \o "\" seleccionada."

\* handleTemplateSelect
handleTemplateSelect(s, templatePrompt) ==
  [s EXCEPT !.prompt = templatePrompt,
            !.infoMessage = InfoTemplateSelected(templatePrompt)]

\* onChange of the prompt textarea
setPrompt(s, value) == [s EXCEPT !.prompt = value]

\* onChange of the edit prompt input
setEditPrompt(s, value) == [s EXCEPT !.editPrompt = value]

\* onClick of a sticker card's Edit button
selectSticker(s, index) == [s EXCEPT !.selectedStickerIndex = index]

\* onClick of the cancel-edit button
cancelEdit(s) ==
  [s EXCEPT !.selectedStickerIndex = NoSelection,
            !.editPrompt = "",
            !.infoMessage = InfoEditCancelled]

\* What the user may type as a prompt or an edit prompt
Typed == {"", " \t\n" \o VerticalTab, "un gato"}

----------------------------------------------------------------------------
(* What the page shows: the conditions under which each control is rendered
   and enabled (the JSX of App) *)

\* {!apiKeySelected && ...}: the welcome panel with the key button
KeyPanelShown == mounted /\ ~apiKeySelected

\* {apiKeySelected && ...}: templates, prompt, creations and storage buttons
MainShown == mounted /\ apiKeySelected

RegenerateEnabled == MainShown /\ ~(loadingTemplates \/ ~apiKeySelected)

GenerateEnabled == MainShown /\ ~(loading \/ Trim(prompt) = "" \/ ~apiKeySelected)

\* {generatedStickers.length > 0 && ...}
CreationsShown == MainShown /\ Len(generatedStickers) > 0

DownloadEnabled == CreationsShown /\ ~loading

EditButtonEnabled(i) ==
  /\ CreationsShown
  /\ i \in 1..Len(generatedStickers)
  /\ ~(loading \/ generatedStickers[i].isAnimated)

\* {selectedStickerIndex !== null && selectedSticker && ...}
EditPanelShown ==
  /\ CreationsShown
  /\ selectedStickerIndex # NoSelection
  /\ selectedStickerIndex <= Len(generatedStickers)

\* selectedStickerIsAnimated ? <p>...</p> : <>input and buttons</>
EditControlsShown ==
  EditPanelShown /\ ~generatedStickers[selectedStickerIndex].isAnimated

ApplyEditEnabled ==
  EditControlsShown /\ ~(loading \/ Trim(editPrompt) = "" \/ ~apiKeySelected)

RemoveBackgroundEnabled == EditControlsShown /\ ~(loading \/ ~apiKeySelected)

CancelEditEnabled == EditPanelShown /\ ~loading

SaveEnabled == MainShown /\ ~(loading \/ Len(generatedStickers) = 0)

LoadEnabled == MainShown /\ ~loading

ClearEnabled == MainShown /\ ~loading

----------------------------------------------------------------------------
(* The user's actions *)

Branch(ok) == IF ok THEN "start" ELSE "invalid"

Click_handleSelectApiKey ==
  /\ KeyPanelShown
  /\ UserStep
  /\ Apply(handleSelectApiKey(S, "button"), Label("handleSelectApiKey", "start"))

Click_generateMoreTemplates ==
  /\ RegenerateEnabled
  /\ UserStep
  /\ Apply(regenerateTemplates(S), Label("generateMoreTemplates", "start"))

Click_template ==
  /\ MainShown
  /\ UserStep
  /\ \E i \in 1..length(currentTemplates) :
       Apply(handleTemplateSelect(S, currentTemplates.items[i].prompt),
             Label("handleTemplateSelect", "done"))

Type_prompt ==
  /\ MainShown
  /\ UserStep
  /\ \E value \in Typed \ {prompt} :
       Apply(setPrompt(S, value), Label("setPrompt", "done"))

Do_generateStickers ==
  Apply(generateStickers(S), Label("generateStickers", Branch(generateStickersOk(S))))

Click_generateStickers == GenerateEnabled /\ UserStep /\ Do_generateStickers

Do_generateAnimatedSticker ==
  Apply(generateAnimatedSticker(S),
        Label("generateAnimatedSticker", Branch(animatedPromptOk(S) /\ apiKeySelected)))

Click_generateAnimatedSticker ==
  GenerateEnabled /\ UserStep /\ Do_generateAnimatedSticker

Click_downloadAllStickers ==
  /\ DownloadEnabled
  /\ UserStep
  /\ Apply(downloadAllStickers(S), Label("downloadAllStickers", "done"))

Click_downloadSingleSticker ==
  /\ DownloadEnabled
  /\ UserStep
  /\ \E i \in 1..Len(generatedStickers) :
       Apply(downloadSingleSticker(S, generatedStickers[i], i),
             Label("downloadSingleSticker", "done"))

Click_edit ==
  /\ UserStep
  /\ \E i \in 1..Len(generatedStickers) :
       /\ EditButtonEnabled(i)
       /\ i # selectedStickerIndex
       /\ Apply(selectSticker(S, i), Label("selectSticker", "done"))

Type_editPrompt ==
  /\ EditControlsShown
  /\ UserStep
  /\ \E value \in Typed \ {editPrompt} :
       Apply(setEditPrompt(S, value), Label("setEditPrompt", "done"))

Do_editSticker ==
  Apply(editSticker(S), Label("editSticker", Branch(editStickerOk(S))))

Click_editSticker == ApplyEditEnabled /\ UserStep /\ Do_editSticker

Do_removeBackground ==
  Apply(removeBackground(S), Label("removeBackground", Branch(removeBackgroundOk(S))))

Click_removeBackground == RemoveBackgroundEnabled /\ UserStep /\ Do_removeBackground

Click_cancelEdit ==
  /\ CancelEditEnabled
  /\ UserStep
  /\ Apply(cancelEdit(S), Label("cancelEdit", "done"))

Click_save ==
  /\ SaveEnabled
  /\ UserStep
  /\ \E outcome \in SetItemOutcomes :
       Apply(saveStickersToLocalStorage(S, outcome),
             Label("saveStickersToLocalStorage", outcome))

Click_load ==
  /\ LoadEnabled
  /\ UserStep
  /\ Apply(loadStickersFromLocalStorage(S),
           Label("loadStickersFromLocalStorage",
                 IF ~StoredTruthy(storage) THEN "absent"
                 ELSE IF loadThrows(storage) THEN "corrupt" ELSE "loaded"))

Click_clear ==
  /\ ClearEnabled
  /\ UserStep
  /\ \E confirmed \in BOOLEAN, throws \in BOOLEAN :
       /\ (throws => confirmed)
       /\ Apply(clearSavedStickers(S, confirmed, throws),
                Label("clearSavedStickers",
                      IF ~confirmed THEN "declined"
                      ELSE IF throws THEN "failed" ELSE "cleared"))

----------------------------------------------------------------------------
(* The environment's actions: a pending call settles, a timer fires *)

\* The startup load finds a stored text that it parses and rehydrates
storedLoads(st) == StoredTruthy(st) /\ ~loadThrows(st)

\* The startup load finds a stored text on which JSON.parse or the map throws
storedCorrupt(st) == StoredTruthy(st) /\ loadThrows(st)

\* The label of a step in which a template request settled: the error thrown, or
\* the response that was parsed
TemplatesLabel(label, settled) ==
  IF settled.rejected THEN Thrown(label, settled.e)
  ELSE IF templatesParsed[settled.response.text].throws
    THEN Thrown(label, ErrSyntax(templatesParsed[settled.response.text].jsonStr,
                                 settled.response.engine))
  ELSE label @@ [response |-> settled.response.text,
                 newTemplates |-> templatesParsed[settled.response.text].newTemplates]

Settle_hasSelectedApiKey ==
  \E k \in 1..Len(tasks) :
    /\ tasks[k].kind = "init" /\ tasks[k].pc = "hasKey"
    /\ EnvStep
    /\ \/ \E hasKey \in BOOLEAN :
            LET new == loadInitialDataHasKey(S, k, hasKey)
                finally == Len(new.tasks) < Len(tasks)
            IN Apply(new,
                     LoadLabel(IF hasKey THEN "hasKey" ELSE "noKey", finally,
                               finally /\ storedLoads(storage),
                               finally /\ storedCorrupt(storage),
                               tasks[k].rerun,
                               new.generatedStickers # generatedStickers))
       \/ \E e \in CollaboratorErrors :
            LET new == loadInitialDataRejected(S, k, e) IN
            Apply(new,
                  Thrown(LoadLabel("rejected", TRUE, storedLoads(storage),
                                   storedCorrupt(storage), tasks[k].rerun,
                                   new.generatedStickers # generatedStickers), e))

Settle_initialTemplates ==
  \E k \in 1..Len(tasks) :
    /\ tasks[k].kind = "init" /\ tasks[k].pc = "tpl"
    /\ EnvStep
    /\ \E settled \in SettledTemplates :
         LET new == loadInitialDataTemplates(S, k, settled) IN
         Apply(new,
               TemplatesLabel(LoadLabel("templates", TRUE, storedLoads(storage),
                                        storedCorrupt(storage), tasks[k].rerun,
                                        new.generatedStickers # generatedStickers),
                              settled))

Settle_openSelectKey ==
  \E k \in 1..Len(tasks) :
    /\ tasks[k].kind = "sel" /\ tasks[k].pc = "open"
    /\ EnvStep
    /\ \/ Apply(handleSelectApiKeyResolved(S, k), Label("handleSelectApiKey", "selected"))
       \/ \E e \in CollaboratorErrors :
            Apply(handleSelectApiKeyRejected(S, k, e),
                  Thrown(Label("handleSelectApiKey", "rejected"), e))

Settle_selectTemplates ==
  \E k \in 1..Len(tasks) :
    /\ tasks[k].kind = "sel" /\ tasks[k].pc = "tpl"
    /\ EnvStep
    /\ \E settled \in SettledTemplates :
         Apply(handleSelectApiKeyTemplates(S, k, settled),
               TemplatesLabel(Label("handleSelectApiKey", "templates"), settled))

Settle_templates ==
  \E k \in 1..Len(tasks) :
    /\ tasks[k].kind = "tpl"
    /\ EnvStep
    /\ \E settled \in SettledTemplates :
         Apply(IF settled.rejected
                 THEN generateMoreTemplatesRejected([S EXCEPT !.tasks = RemoveAt(@, k)],
                                                    settled.e)
                 ELSE generateMoreTemplatesResolved([S EXCEPT !.tasks = RemoveAt(@, k)],
                                                    settled.response,
                                                    tasks[k].isInitialLoad),
               TemplatesLabel(Label("generateMoreTemplates",
                                    IF settled.rejected THEN "rejected" ELSE "resolved"),
                              settled))

\* The openSelectKey() that handleAPIError awaits settles. Resolved: nothing follows
\* it. Rejected: the await is in no try block and no caller awaits or catches the
\* promise of handleAPIError, so the rejection is left unhandled
Settle_errorSelectKey ==
  \E k \in 1..Len(tasks) :
    /\ tasks[k].kind = "errSel"
    /\ EnvStep
    /\ \/ Apply([S EXCEPT !.tasks = RemoveAt(@, k)], Label("handleAPIError", "settled"))
       \/ \E e \in CollaboratorErrors :
            Apply([S EXCEPT !.tasks = RemoveAt(@, k)],
                  Thrown(Label("handleAPIError", "unhandledRejection"), e))

\* Promise.all of a call of generateStickers settles
Settle_generationRequests ==
  \E k \in 1..Len(tasks) :
    /\ tasks[k].kind = "gen" /\ tasks[k].pc = "requests"
    /\ EnvStep
    /\ \E outcome \in RequestOutcomes :
         \/ /\ outcome.rejected = 0
            /\ Apply(generateStickersResolved(S, k, outcome),
                     [op |-> "generateStickers",
                      br |-> IF outcome.images = 0 THEN "done" ELSE "responses",
                      outcome |-> outcome, before |-> tasks[k].before])
         \/ /\ outcome.rejected > 0
            /\ \E e \in Errors :
                 Apply(generateStickersSettled(S, k, outcome, e),
                       [op |-> "generateStickers", br |-> "rejected",
                        outcome |-> outcome, before |-> tasks[k].before, e |-> e])

\* The image that a call of generateStickers resizes loads and is converted
\* (img.onload), or resizeAndConvertToWebp rejects
Resize_generateStickers ==
  \E k \in 1..Len(tasks) :
    /\ tasks[k].kind = "gen" /\ tasks[k].pc = "resize"
    /\ EnvStep
    /\ LET l == [op |-> "generateStickers", outcome |-> tasks[k].outcome,
                 before |-> tasks[k].before] IN
       \/ Apply(generateStickersResized(S, k),
                l @@ [br |-> IF Len(tasks[k].newStickers) + 1 < tasks[k].outcome.images
                               THEN "resized" ELSE "done"])
       \/ \E e \in ResizeErrors :
            Apply(generateStickersResizeRejected(S, k, e),
                  Thrown(l @@ [br |-> "resizeFailed"], e))

Settle_generateVideos ==
  \E k \in 1..Len(tasks) :
    /\ tasks[k].kind = "vid" /\ tasks[k].pc \in {"start", "poll"}
    /\ EnvStep
    /\ \/ \E operation \in Operations :
            /\ ~operation.done => tasks[k].notDone < MaxPolls
            /\ Apply(generateAnimatedStickerReport(S, k, operation),
                     [op |-> "generateAnimatedSticker",
                      br |-> IF ~operation.done THEN "notDone"
                             ELSE IF Truthy(operation.uri) THEN "done" ELSE "noVideo",
                      before |-> tasks[k].before,
                      operation |-> operation,
                      notDone |-> tasks[k].notDone + (IF operation.done THEN 0 ELSE 1),
                      delays |-> tasks[k].delays,
                      polls |-> tasks[k].polls])
       \/ \E e \in Errors :
            Apply(generateAnimatedStickerRejected(S, k, e),
                  [op |-> "generateAnimatedSticker", br |-> "rejected",
                   before |-> tasks[k].before, e |-> e])

Timer_poll ==
  \E k \in 1..Len(tasks) :
    /\ tasks[k].kind = "vid" /\ tasks[k].pc = "delay"
    /\ EnvStep
    /\ Apply(generateAnimatedStickerPoll(S, k), Label("generateAnimatedSticker", "poll"))

Settle_edit ==
  \E k \in 1..Len(tasks) :
    /\ tasks[k].kind \in {"edit", "rmbg"} /\ tasks[k].pc = "request"
    /\ EnvStep
    /\ LET op == IF tasks[k].kind = "edit" THEN "editSticker" ELSE "removeBackground" IN
       \/ \E imagePart \in EditedParts \cup {NoImagePart} :
            Apply(editResolved(S, k, imagePart),
                  [op |-> op,
                   br |-> IF hasImage(imagePart) THEN "response" ELSE "noImage",
                   task |-> tasks[k], imagePart |-> imagePart,
                   current |-> generatedStickers])
       \/ \E e \in Errors :
            Apply(editRejected(S, k, e),
                  [op |-> op, br |-> "rejected", task |-> tasks[k], e |-> e])

\* The image that a call of editSticker or removeBackground resizes loads and is
\* converted (img.onload), or resizeAndConvertToWebp rejects
Resize_edit ==
  \E k \in 1..Len(tasks) :
    /\ tasks[k].kind \in {"edit", "rmbg"} /\ tasks[k].pc = "resize"
    /\ EnvStep
    /\ LET op == IF tasks[k].kind = "edit" THEN "editSticker" ELSE "removeBackground"
           l  == [op |-> op, task |-> tasks[k], imagePart |-> tasks[k].imagePart,
                  current |-> generatedStickers] IN
       \/ Apply(editResized(S, k), l @@ [br |-> "done"])
       \/ \E e \in ResizeErrors :
            Apply(editRejected(S, k, e), Thrown(l @@ [br |-> "resizeFailed"], e))

Settle_fetch ==
  \E k \in 1..Len(tasks) :
    /\ tasks[k].kind = "fetch" /\ tasks[k].pc = "fetch"
    /\ EnvStep
    /\ \/ \E ok \in BOOLEAN :
            Apply(downloadFetched(S, k, ok),
                  IF ok THEN Label("downloadSingleSticker", "fetched")
                  ELSE Thrown(Label("downloadSingleSticker", "httpError"), ErrHttp))
       \/ \E e \in FetchErrors :
            Apply(downloadRejected(S, k, e),
                  Thrown(Label("downloadSingleSticker", "rejected"), e))

\* response.blob() of a call of downloadSingleSticker settles
Settle_blob ==
  \E k \in 1..Len(tasks) :
    /\ tasks[k].kind = "fetch" /\ tasks[k].pc = "blob"
    /\ EnvStep
    /\ \/ Apply(downloadBlob(S, k), Label("downloadSingleSticker", "downloaded"))
       \/ \E e \in FetchErrors :
            Apply(downloadRejected(S, k, e),
                  Thrown(Label("downloadSingleSticker", "blobRejected"), e))

----------------------------------------------------------------------------
(* The specifications *)

\* A static and an animated sticker as an earlier session saved them
StoredStatic == simplifiedSticker(StaticSticker("s1", "webp(imgA)", WEBP, "imgA", "image/png"))

StoredAnimated == simplifiedSticker(AnimatedSticker("s2", VIDEO_URI, MP4))

StoredStatic2 == simplifiedSticker(StaticSticker("s3", "webp(imgB)", WEBP, "imgB", "image/jpeg"))

\* What localStorage may hold under the key when the page is opened
InitialStorage ==
  { NoItem,
    EmptyText,
    GarbageText,
    JsonText(JNull),
    JsonText(JObject(EmptyObject)),
    JsonText(JArray(<<JNull>>)),
    JsonText(JArray(<<JNumber>>)),
    JsonText(JArray(<<JObject(StoredStatic), JObject(StoredAnimated), JObject(StoredStatic2)>>)) }

\* The state after the first render and its effect: loadInitialData has been
\* called and waits for hasSelectedApiKey()
Init ==
  /\ apiKeySelected = FALSE
  /\ prompt = ""
  /\ generatedStickers = << >>
  /\ loading = FALSE
  /\ loadingTemplates = FALSE
  /\ error = Null
  /\ infoMessage = Null
  /\ selectedStickerIndex = NoSelection
  /\ editPrompt = ""
  /\ currentTemplates = JArray(initialViralTemplates)
  /\ storage \in InitialStorage
  /\ tasks = <<InitTask(FALSE, 0)>>
  /\ uuids = 0
  /\ mounted = TRUE
  /\ last = Label("mount", "effect")
  /\ nActions = 0

Environment ==
  \/ Settle_hasSelectedApiKey
  \/ Settle_initialTemplates
  \/ Settle_openSelectKey
  \/ Settle_templates
  \/ Settle_errorSelectKey
  \/ Settle_generationRequests
  \/ Resize_generateStickers
  \/ Settle_generateVideos
  \/ Timer_poll
  \/ Settle_edit
  \/ Resize_edit
  \/ Settle_fetch
  \/ Settle_blob

\* The page as the user drives it: a handler runs when its control is clicked,
\* and a control can be clicked when it is rendered and not disabled
Next ==
  \/ Click_handleSelectApiKey
  \/ Click_generateMoreTemplates
  \/ Click_template
  \/ Type_prompt
  \/ Click_generateStickers
  \/ Click_generateAnimatedSticker
  \/ Click_downloadAllStickers
  \/ Click_downloadSingleSticker
  \/ Click_edit
  \/ Type_editPrompt
  \/ Click_editSticker
  \/ Click_removeBackground
  \/ Click_cancelEdit
  \/ Click_save
  \/ Click_load
  \/ Click_clear
  \/ Environment

Spec == Init /\ [][Next]_vars

\* The page with its pending work carried on: every request of the four
\* operations is answered at some time, an image that is resized loads or fails
\* to, and the 10 s timer of the polling loop fires, a video job reporting done
\* after MaxPolls reports of not done at most
Fairness ==
  /\ WF_vars(Settle_generationRequests)
  /\ WF_vars(Resize_generateStickers)
  /\ WF_vars(Settle_generateVideos)
  /\ WF_vars(Timer_poll)
  /\ WF_vars(Settle_edit)
  /\ WF_vars(Resize_edit)

SpecLive == Init /\ [][Next]_vars /\ Fairness

----------------------------------------------------------------------------
(* The handlers called whatever the page shows: the checks that each handler
   makes itself are reached only this way, the page disabling the control
   in the same cases *)

Call_handleSelectApiKey ==
  /\ CallStep
  /\ Apply(handleSelectApiKey(S, "button"), Label("handleSelectApiKey", "start"))

Call_generateMoreTemplates ==
  /\ CallStep
  /\ Apply(regenerateTemplates(S),
           Label("generateMoreTemplates", Branch(templatesRequestIssued(apiKeySelected))))

Call_setPrompt ==
  /\ CallStep
  /\ \E value \in Typed \ {prompt} :
       Apply(setPrompt(S, value), Label("setPrompt", "done"))

Call_setEditPrompt ==
  /\ CallStep
  /\ \E value \in Typed \ {editPrompt} :
       Apply(setEditPrompt(S, value), Label("setEditPrompt", "done"))

Call_setSelectedStickerIndex ==
  /\ CallStep
  /\ \E i \in 1..Len(generatedStickers) :
       /\ i # selectedStickerIndex
       /\ Apply(selectSticker(S, i), Label("selectSticker", "done"))

Call_generateStickers == CallStep /\ Do_generateStickers

Call_generateAnimatedSticker == CallStep /\ Do_generateAnimatedSticker

Call_editSticker == CallStep /\ Do_editSticker

Call_removeBackground == CallStep /\ Do_removeBackground

NextCall ==
  \/ Call_handleSelectApiKey
  \/ Call_generateMoreTemplates
  \/ Call_setPrompt
  \/ Call_setEditPrompt
  \/ Call_setSelectedStickerIndex
  \/ Call_generateStickers
  \/ Call_generateAnimatedSticker
  \/ Call_editSticker
  \/ Call_removeBackground
  \/ Settle_hasSelectedApiKey
  \/ Settle_initialTemplates
  \/ Settle_openSelectKey
  \/ Settle_selectTemplates
  \/ Settle_templates
  \/ Settle_errorSelectKey
  \/ Settle_generationRequests
  \/ Resize_generateStickers
  \/ Settle_generateVideos
  \/ Timer_poll
  \/ Settle_edit
  \/ Resize_edit

\* The page opened with nothing stored, or with the stickers of an earlier
\* session: the handlers' own checks do not read the stored text
InitCall ==
  /\ Init
  /\ storage \in {NoItem, JsonText(JArray(<<JObject(StoredStatic), JObject(StoredAnimated), JObject(StoredStatic2)>>))}

SpecCall == InitCall /\ [][NextCall]_vars

----------------------------------------------------------------------------
(* The page used for a longer session of one kind: the user edits the static
   stickers by removing their background and regenerates the templates, each
   control clicked when the page enables it *)

EditingStep ==
  /\ nActions < MaxEditingActions
  /\ nActions' = nActions + 1

Editing_selectSticker ==
  /\ EditingStep
  /\ \E i \in 1..Len(generatedStickers) :
       /\ EditButtonEnabled(i)
       /\ i # selectedStickerIndex
       /\ Apply(selectSticker(S, i), Label("selectSticker", "done"))

Editing_removeBackground ==
  RemoveBackgroundEnabled /\ EditingStep /\ Do_removeBackground

Editing_generateMoreTemplates ==
  /\ RegenerateEnabled
  /\ EditingStep
  /\ Apply(regenerateTemplates(S), Label("generateMoreTemplates", "start"))

NextEditing ==
  \/ Editing_selectSticker
  \/ Editing_removeBackground
  \/ Editing_generateMoreTemplates
  \/ Settle_hasSelectedApiKey
  \/ Settle_initialTemplates
  \/ Settle_templates
  \/ Settle_errorSelectKey
  \/ Settle_edit
  \/ Resize_edit

\* The page opened with the stickers of an earlier session stored
InitEditing ==
  /\ Init
  /\ storage = JsonText(JArray(<<JObject(StoredStatic), JObject(StoredAnimated),
                                 JObject(StoredStatic2)>>))

SpecEditing == InitEditing /\ [][NextEditing]_vars

----------------------------------------------------------------------------
(* The page used for a session of another kind: the user types a prompt,
   generates static stickers from it, picks one of them to edit and
   regenerates the templates, each control used when the page enables it *)

CreatingStep ==
  /\ nActions < MaxCreatingActions
  /\ nActions' = nActions + 1

Creating_setPrompt ==
  /\ MainShown
  /\ CreatingStep
  /\ \E value \in Typed \ {prompt} :
       Apply(setPrompt(S, value), Label("setPrompt", "done"))

Creating_generateStickers == GenerateEnabled /\ CreatingStep /\ Do_generateStickers

Creating_selectSticker ==
  /\ CreatingStep
  /\ \E i \in 1..Len(generatedStickers) :
       /\ EditButtonEnabled(i)
       /\ i # selectedStickerIndex
       /\ Apply(selectSticker(S, i), Label("selectSticker", "done"))

Creating_generateMoreTemplates ==
  /\ RegenerateEnabled
  /\ CreatingStep
  /\ Apply(regenerateTemplates(S), Label("generateMoreTemplates", "start"))

NextCreating ==
  \/ Creating_setPrompt
  \/ Creating_generateStickers
  \/ Creating_selectSticker
  \/ Creating_generateMoreTemplates
  \/ Settle_hasSelectedApiKey
  \/ Settle_initialTemplates
  \/ Settle_templates
  \/ Settle_errorSelectKey
  \/ Settle_generationRequests
  \/ Resize_generateStickers

SpecCreating == InitEditing /\ [][NextCreating]_vars

----------------------------------------------------------------------------
(* Properties.  last is the label of the step that led to the state, so a   *)
(* state predicate on last speaks of the state right after that step.       *)

\* The handler that ended in the last step, and how it ended
Ended(op, br) == last.op = op /\ last.br = br

\* sticker is a static sticker made from imagePart by the image normalizer
NormalizedFrom(sticker, id, imagePart) ==
  /\ sticker.id = id
  /\ sticker.isAnimated = FALSE
  /\ sticker.base64 = resizeAndConvertToWebp(imagePart.data, imagePart.mimeType)
  /\ sticker.mimeType = WEBP
  /\ sticker.originalBase64 = imagePart.data
  /\ sticker.originalMimeType = imagePart.mimeType
  /\ sticker.videoDownloadUri = UNDEF
  /\ sticker.videoMimeType = UNDEF

\* generateStickers has just ended, every one of its requests having returned an
\* image or failed
GenerationEndedOnImagesAndFailures ==
  /\ last.op = "generateStickers"
  /\ last.br \in {"done", "rejected"}
  /\ last.outcome.noImage = 0

\* C1: when k of the 5 requests of generateStickers fail and the other 5-k each
\* return an image, the operation ends with exactly 5-k normalized stickers in
\* the collection, and, some image having been returned, without an error.
C1_PartialGenerationKept ==
  GenerationEndedOnImagesAndFailures =>
    /\ Len(generatedStickers) = last.outcome.images
    /\ \A i \in 1..Len(generatedStickers) :
         NormalizedFrom(generatedStickers[i], generatedStickers[i].id, GeneratedPart)
    /\ (last.outcome.images > 0 => error = Null)

\* C1, the diverging case reached: 2 of the 5 requests failed, 3 returned an image,
\* and the collection is empty
C1_TwoFailuresLoseAll ==
  /\ Ended("generateStickers", "rejected")
  /\ last.outcome.images = 3
  /\ last.outcome.rejected = 2
  /\ generatedStickers = << >>
  /\ error # Null

\* A sticker with exactly one variant populated, as generation and edit build it
WellFormed(sticker) ==
  /\ Truthy(sticker.id)
  /\ IF sticker.isAnimated
       THEN /\ Truthy(sticker.videoDownloadUri) /\ Truthy(sticker.videoMimeType)
            /\ sticker.base64 = UNDEF /\ sticker.mimeType = UNDEF
            /\ sticker.originalBase64 = UNDEF /\ sticker.originalMimeType = UNDEF
       ELSE /\ Truthy(sticker.base64) /\ Truthy(sticker.mimeType)
            /\ Truthy(sticker.originalBase64) /\ Truthy(sticker.originalMimeType)
            /\ sticker.videoDownloadUri = UNDEF /\ sticker.videoMimeType = UNDEF

\* What a round trip through the stored record keeps of a collection
SameAfterRoundTrip(before, after) ==
  /\ Len(after) = Len(before)
  /\ \A i \in 1..Len(before) :
       /\ after[i].id = before[i].id
       /\ after[i].isAnimated = before[i].isAnimated
       /\ IF before[i].isAnimated
            THEN /\ after[i].videoDownloadUri = before[i].videoDownloadUri
                 /\ after[i].videoMimeType = before[i].videoMimeType
            ELSE /\ after[i].base64 = before[i].base64
                 /\ after[i].mimeType = before[i].mimeType

\* C2: right after a successful save of a collection of well-formed stickers, the
\* explicit load and the startup load each yield a collection of the same length
\* and order, with the same id and isAnimated at every place, the same base64 and
\* mimeType for a static sticker and the same videoDownloadUri and videoMimeType
\* for an animated one.
C2_SaveLoadRoundTrip ==
  ( /\ Ended("saveStickersToLocalStorage", "stored")
    /\ \A i \in 1..Len(generatedStickers) : WellFormed(generatedStickers[i]) ) =>
    /\ SameAfterRoundTrip(generatedStickers,
                          loadStickersFromLocalStorage(S).generatedStickers)
    /\ SameAfterRoundTrip(generatedStickers, loadInitialDataFinally(S).generatedStickers)
    /\ loadStickersFromLocalStorage(S).infoMessage = InfoLoaded(Len(generatedStickers))

\* C2, its case reached: a collection with an animated sticker and a static one
\* whose original image differs from its display image has been saved
C2_SavedMixedCollection ==
  /\ Ended("saveStickersToLocalStorage", "stored")
  /\ \A i \in 1..Len(generatedStickers) : WellFormed(generatedStickers[i])
  /\ \E i \in 1..Len(generatedStickers) : generatedStickers[i].isAnimated
  /\ \E i \in 1..Len(generatedStickers) :
       /\ ~generatedStickers[i].isAnimated
       /\ generatedStickers[i].originalBase64 # generatedStickers[i].base64

\* C3: right after a successful editSticker or removeBackground on index i, the
\* collection has the length it had when the operation was called, every other
\* index holds the sticker it held then, and index i holds the same id with all
\* four payload fields taken from the response.
C3_EditReplacesOnlySelected ==
  ( /\ last.op \in {"editSticker", "removeBackground"}
    /\ last.br = "done" ) =>
    LET i == last.task.index
        old == last.task.snapshot
    IN /\ Len(generatedStickers) = Len(old)
       /\ \A j \in 1..Len(old) : j # i => generatedStickers[j] = old[j]
       /\ NormalizedFrom(generatedStickers[i], old[i].id, last.imagePart)

\* C3, its case reached: an edit with a prompt has replaced one sticker of several,
\* and the response differs from the image the sticker had
C3_EditedOneOfSeveral ==
  /\ Ended("editSticker", "done")
  /\ Len(generatedStickers) > 1
  /\ last.task.stickerToEdit.originalBase64 # last.imagePart.data
  /\ last.task.stickerToEdit.originalMimeType # last.imagePart.mimeType

\* C4: in every step in which a call fails with error e while apiKeySelected is
\* true, apiKeySelected becomes false if and only if the text of e contains
\* "API key expired." or "Requested entity was not found.".
C4_RevokedIffCredentialError ==
  [][ ("e" \in DOMAIN last' /\ apiKeySelected) =>
        (~apiKeySelected' <=> HasCredentialText(last'.e.message)) ]_vars

\* C4, the diverging case reached: the key check of a re-run of the startup load
\* was rejected with a generic error, and the flag is false
C4_GenericErrorRevoked ==
  /\ Ended("loadInitialData", "rejected")
  /\ ~HasCredentialText(last.e.message)
  /\ length(currentTemplates) > 0
  /\ ~apiKeySelected

\* A stored text that is the JSON of an array whose entries are all objects
StructurallyValid(st) ==
  /\ st.t = "text"
  /\ st.parses
  /\ st.value.j = "array"
  /\ \A i \in 1..Len(st.value.items) : st.value.items[i].j = "object"

\* C5: in every step in which the explicit load or the startup load runs on a
\* stored text that is not a structurally valid sticker array, the stored key is
\* removed and a corruption error message is set.
C5_CorruptTextPurged ==
  [][ ( /\ \/ last'.op = "loadStickersFromLocalStorage"
           \/ (last'.op = "loadInitialData" /\ last'.finally)
        /\ storage.t = "text"
        /\ ~StructurallyValid(storage) ) =>
        ( /\ storage' = NoItem
          /\ error' \in {MsgLoadCorrupt, MsgInitialCorrupt} ) ]_vars

\* C5, the diverging case reached: the explicit load has accepted the stored text
\* [1], which is still stored, as one sticker without any property
C5_NumberEntryAccepted ==
  /\ Ended("loadStickersFromLocalStorage", "loaded")
  /\ storage = JsonText(JArray(<<JNumber>>))
  /\ Len(generatedStickers) = 1
  /\ generatedStickers[1].id = UNDEF
  /\ error = Null

\* C6: in every step in which the explicit load runs with nothing stored, the
\* "no saved stickers" error is set and the collection, the selection and the
\* edit prompt are unchanged; in every step in which the startup load runs with
\* nothing stored, the collection is unchanged (empty on the first startup),
\* nothing is stored afterwards and no load error is set: the error is the
\* previous one, or the one the key check or the template request left, and it
\* is the previous one when the key check answered "no key".
C6_NothingStored ==
  [][ /\ (last'.op = "loadStickersFromLocalStorage" /\ storage = NoItem) =>
           /\ error' = MsgNothingSaved
           /\ generatedStickers' = generatedStickers
           /\ selectedStickerIndex' = selectedStickerIndex
           /\ editPrompt' = editPrompt
      /\ (last'.op = "loadInitialData" /\ last'.finally /\ storage = NoItem) =>
           /\ generatedStickers' = generatedStickers
           /\ storage' = NoItem
           /\ error' # error =>
                error' \notin {MsgNothingSaved, MsgLoadCorrupt, MsgInitialCorrupt}
           /\ (last'.br = "noKey" => error' = error) ]_vars

\* C6, its case reached: the explicit load found nothing stored while the
\* collection held stickers
C6_LoadedNothingIntoCollection ==
  /\ Ended("loadStickersFromLocalStorage", "absent")
  /\ storage = NoItem
  /\ Len(generatedStickers) > 0
  /\ error = MsgNothingSaved

\* The runs of generateStickers, generateAnimatedSticker, editSticker and
\* removeBackground in flight
OperationsInFlight ==
  Cardinality({i \in 1..Len(tasks) : tasks[i].kind \in {"gen", "vid", "edit", "rmbg"}})

\* C7: at most one of the four operations is in flight, and no save, load or
\* clear of the stored collection, the startup load included, has just run while
\* one is.
C7_BusyExcludesOthers ==
  /\ OperationsInFlight <= 1
  /\ (OperationsInFlight = 1 => loading)
  /\ last.op \in {"saveStickersToLocalStorage", "loadStickersFromLocalStorage",
                  "clearSavedStickers"} => OperationsInFlight = 0
  /\ (last.op = "loadInitialData" /\ last.finally) => OperationsInFlight = 0

\* C7, the diverging case reached: templates were regenerated while an operation
\* was in flight, and the startup load, run again, has replaced the collection by
\* the stored one
C7_StartupLoadWhileBusy ==
  /\ last.op = "loadInitialData"
  /\ last.loaded
  /\ length(currentTemplates) > 0
  /\ loading
  /\ OperationsInFlight = 1
  /\ generatedStickers # << >>

\* A task that waits for the remote generation service
IsRemoteRequest(t) ==
  \/ t.kind \in {"gen", "vid", "edit", "rmbg", "tpl"}
  \/ (t.kind \in {"init", "sel"} /\ t.pc = "tpl")

RemoteRequests(q) == Cardinality({i \in 1..Len(q) : IsRemoteRequest(q[i])})

\* The calls of handleSelectApiKey that generateAnimatedSticker awaits
AwaitedSelections(q) ==
  Cardinality({i \in 1..Len(q) : q[i].kind = "sel" /\ q[i].caller = "animated"})

\* C8: in every step in which generateStickers or generateAnimatedSticker is called
\* with an empty or whitespace-only prompt, editSticker with no selected sticker
\* or an empty edit prompt, removeBackground with no selected sticker, or any of
\* the four while apiKeySelected is false, an error message is set, no request to
\* the remote service is issued, and the collection, the selection and the busy
\* flag are unchanged; and when the key selection that generateAnimatedSticker
\* then awaits settles, no request is issued either and the three are unchanged.
C8_InvalidCallsRejected ==
  [][ /\ ( /\ nActions' = nActions + 1
           /\ \/ /\ last'.op \in {"generateStickers", "generateAnimatedSticker"}
                 /\ (Trim(prompt) = "" \/ ~apiKeySelected)
              \/ /\ last'.op = "editSticker"
                 /\ \/ selectedStickerIndex = NoSelection
                    \/ Trim(editPrompt) = ""
                    \/ ~apiKeySelected
              \/ /\ last'.op = "removeBackground"
                 /\ (selectedStickerIndex = NoSelection \/ ~apiKeySelected) ) =>
           /\ error' # Null
           /\ RemoteRequests(tasks') = RemoteRequests(tasks)
           /\ generatedStickers' = generatedStickers
           /\ selectedStickerIndex' = selectedStickerIndex
           /\ loading' = loading
      /\ AwaitedSelections(tasks') < AwaitedSelections(tasks) =>
           /\ RemoteRequests(tasks') = RemoteRequests(tasks)
           /\ generatedStickers' = generatedStickers
           /\ selectedStickerIndex' = selectedStickerIndex
           /\ loading' = loading ]_vars

\* C8, its case reached: editSticker was called with a static sticker selected
\* and an edit prompt typed while apiKeySelected was false, and has only set its
\* error
C8_EditStickerWithoutKey ==
  /\ Ended("editSticker", "invalid")
  /\ ~apiKeySelected
  /\ selectedStickerIndex # NoSelection
  /\ ~generatedStickers[selectedStickerIndex].isAnimated
  /\ Trim(editPrompt) # ""
  /\ error = MsgNoKeyEdit
  /\ RemoteRequests(tasks) = 0
  /\ ~loading

\* C8, another of its cases reached: removeBackground was called on a selected
\* static sticker while apiKeySelected was false, and has only set its error
C8_RemoveBackgroundWithoutKey ==
  /\ Ended("removeBackground", "invalid")
  /\ ~apiKeySelected
  /\ selectedStickerIndex # NoSelection
  /\ error = MsgNoKeyBg
  /\ RemoteRequests(tasks) = 0
  /\ ~loading

\* C9: right after generateStickers, generateAnimatedSticker, editSticker or
\* removeBackground has ended in a remote-service failure (a rejected call, or a
\* response without an image or a video reference), the collection is the one of
\* the moment the operation was called.
C9_FailureKeepsCollection ==
  /\ ( /\ last.op = "generateStickers"
       /\ \/ last.br = "rejected"
          \/ (last.br = "done" /\ last.outcome.images = 0) ) =>
       generatedStickers = last.before
  /\ (last.op = "generateAnimatedSticker" /\ last.br \in {"rejected", "noVideo"}) =>
       generatedStickers = last.before
  /\ ( /\ last.op \in {"editSticker", "removeBackground"}
       /\ last.br \in {"rejected", "noImage"} ) =>
       generatedStickers = last.task.snapshot

\* C9, the diverging case reached: generateStickers was called on a collection
\* that held stickers, its requests were rejected, and the collection is empty
C9_FailedGenerationEmptied ==
  /\ Ended("generateStickers", "rejected")
  /\ last.before # << >>
  /\ generatedStickers = << >>

\* C10: at most one of the error message and the info message is set.
C10_OneMessageAtMost == error = Null \/ infoMessage = Null

\* C10, the diverging case reached: a template was chosen while an error was
\* shown, and both messages are set
C10_TemplateChosenOverError ==
  /\ Ended("handleTemplateSelect", "done")
  /\ error # Null
  /\ infoMessage # Null

\* C11: in every step in which selectedStickerIndex changes, to another sticker's
\* index or to no selection, editPrompt is the empty string afterwards.
C11_SelectionChangeResetsEditPrompt ==
  [][ selectedStickerIndex' # selectedStickerIndex => editPrompt' = "" ]_vars

\* C11, the diverging case reached: the Edit button of another sticker was clicked
\* after an edit prompt was typed, and the typed text is still there
C11_EditPromptCarriedOver ==
  /\ Ended("selectSticker", "done")
  /\ selectedStickerIndex # NoSelection
  /\ Trim(editPrompt) # ""

\* after is before followed by n more stickers
ExtendedBy(before, after, n) ==
  /\ Len(after) = Len(before) + n
  /\ SubSeq(after, 1, Len(before)) = before

\* C12: right after a successful generateStickers or generateAnimatedSticker, the
\* collection is the collection of the moment the operation was called, in the
\* same order, followed by the newly generated stickers.
C12_GenerationAppends ==
  /\ ( /\ Ended("generateStickers", "done")
       /\ last.outcome.images > 0 ) =>
       ExtendedBy(last.before, generatedStickers, last.outcome.images)
  /\ Ended("generateAnimatedSticker", "done") =>
       ExtendedBy(last.before, generatedStickers, 1)

\* C12, the diverging case reached: generateStickers succeeded on a collection that
\* held stickers, and none of them is in the collection any more
C12_GenerationReplaced ==
  /\ Ended("generateStickers", "done")
  /\ last.outcome.images > 0
  /\ last.before # << >>
  /\ Len(generatedStickers) = last.outcome.images
  /\ \A i \in 1..Len(generatedStickers), j \in 1..Len(last.before) :
       generatedStickers[i] # last.before[j]

\* C13: right after the explicit load or the startup load has failed on a corrupt
\* stored text, the collection is empty.
C13_FailedLoadEmptiesCollection ==
  ( \/ Ended("loadStickersFromLocalStorage", "corrupt")
    \/ (last.op = "loadInitialData" /\ last.corrupt) ) =>
    generatedStickers = << >>

\* C13, the diverging case reached: the startup load has failed on a corrupt stored
\* text, which it removed, and the collection still holds the generated stickers
C13_FailedLoadKeptCollection ==
  /\ last.op = "loadInitialData"
  /\ last.corrupt
  /\ error = MsgInitialCorrupt
  /\ storage = NoItem
  /\ generatedStickers # << >>

\* C14: a run of generateAnimatedSticker whose job has reported done=false n times
\* has started n delays and, when no delay is running, made n polls, each after
\* one delay; when the job then reports done=true with a download reference, n
\* delays and n polls have been made, no poll follows, and one animated sticker
\* carrying that reference is appended to the collection.
C14_OneCyclePerNotDone ==
  /\ \A k \in 1..Len(tasks) :
       tasks[k].kind = "vid" =>
         /\ tasks[k].delays = tasks[k].polls
         /\ tasks[k].polls = IF tasks[k].pc = "delay" THEN tasks[k].notDone - 1
                             ELSE tasks[k].notDone
  /\ Ended("generateAnimatedSticker", "done") =>
       /\ last.delays = last.notDone
       /\ last.polls = last.notDone
       /\ \A k \in 1..Len(tasks) : tasks[k].kind # "vid"
       /\ Len(generatedStickers) > 0
       /\ LET new == generatedStickers[Len(generatedStickers)] IN
            /\ new.isAnimated
            /\ new.videoDownloadUri = last.operation.uri
            /\ new.videoMimeType = MP4

\* C14, its case reached: the job reported done=false three times and then
\* done=true with a download reference
C14_DoneAfterThreeNotDone ==
  /\ Ended("generateAnimatedSticker", "done")
  /\ last.notDone = 3
  /\ last.polls = 3
  /\ last.operation.uri = VIDEO_URI

\* A step with this label is one in which an exception was thrown or a promise
\* was rejected: by the remote service, the credential collaborator, the image
\* normalizer, fetch, JSON.parse or localStorage
Failure(label) ==
  \/ "e" \in DOMAIN label
  \/ (label.op = "saveStickersToLocalStorage" /\ label.br # "stored")
  \/ (label.op = "clearSavedStickers" /\ label.br = "failed")
  \/ (label.op = "loadStickersFromLocalStorage" /\ label.br = "corrupt")
  \/ (label.op = "loadInitialData" /\ label.corrupt)

\* C15: in every step in which an exception is thrown or a promise is rejected,
\* the failure is caught by the handler it occurs in, and an error message is set
\* at the end of the step; no rejection is left unhandled.
C15_EveryFailureCaught ==
  [][ Failure(last') =>
        /\ last'.br # "unhandledRejection"
        /\ error' # Null ]_vars

\* C15, the diverging case reached: the credential selector opened by
\* handleAPIError was rejected, and nothing caught the rejection
C15_SelectorRejectionEscaped ==
  /\ Ended("handleAPIError", "unhandledRejection")
  /\ last.e \in CollaboratorErrors

\* Exactly one variant of the sticker is populated, the one isAnimated selects
OneVariant(sticker) ==
  IF sticker.isAnimated
    THEN /\ sticker.videoDownloadUri # UNDEF /\ sticker.videoMimeType # UNDEF
         /\ sticker.base64 = UNDEF /\ sticker.mimeType = UNDEF
         /\ sticker.originalBase64 = UNDEF /\ sticker.originalMimeType = UNDEF
    ELSE /\ sticker.base64 # UNDEF /\ sticker.mimeType # UNDEF
         /\ sticker.originalBase64 # UNDEF /\ sticker.originalMimeType # UNDEF
         /\ sticker.videoDownloadUri = UNDEF /\ sticker.videoMimeType = UNDEF

\* C16: every sticker of the collection has exactly one variant populated: the
\* two video fields and none of the four static fields when isAnimated is true,
\* the four static fields and none of the video fields when it is false.
C16_OneVariantPopulated ==
  \A i \in 1..Len(generatedStickers) : OneVariant(generatedStickers[i])

\* C16, the diverging case reached: the startup load has accepted a stored text
\* and put into the collection a sticker with no field of either variant
C16_LoadedStickerWithoutVariant ==
  /\ last.op = "loadInitialData"
  /\ last.loaded
  /\ \E i \in 1..Len(generatedStickers) :
       /\ ~generatedStickers[i].isAnimated
       /\ generatedStickers[i].base64 = UNDEF
       /\ generatedStickers[i].videoDownloadUri = UNDEF

\* The number of calls of the credential selector made by the error policy that
\* are pending
SelectorCalls(q) == Cardinality({i \in 1..Len(q) : q[i] = ErrSelTask})

\* C17: in every step in which an operation fails with error e, the error policy
\* calls the credential selector when the operation is video generation and the
\* text of e contains "Requested entity was not found.", whatever the shape of
\* e; and otherwise it calls none: no more calls are pending afterwards than
\* before.
C17_SelectorOpenedOnVideoNotFound ==
  [][ "e" \in DOMAIN last' =>
        IF /\ last'.op = "generateAnimatedSticker"
           /\ Includes(last'.e.message, CRED_NOT_FOUND)
          THEN SelectorCalls(tasks') > SelectorCalls(tasks)
          ELSE SelectorCalls(tasks') <= SelectorCalls(tasks) ]_vars

\* C17, the diverging case reached: the requests of generateStickers were rejected
\* with "Requested entity was not found.", and the error policy has opened the
\* credential selector
C17_SelectorOpenedByStaticGeneration ==
  /\ Ended("generateStickers", "rejected")
  /\ last.e = Err("api", CRED_NOT_FOUND)
  /\ SelectorCalls(tasks) > 0
  /\ ~apiKeySelected

\* The startup credential check has just reported a key, or the key selection
\* of the user has just succeeded
KeyJustPresent(label) ==
  \/ (label.op = "loadInitialData" /\ label.br = "hasKey")
  \/ (label.op = "handleSelectApiKey" /\ label.br = "selected")

\* C18: in every step in which the startup credential check reports a key, or the
\* key selection succeeds, while the template set is empty, one more request to
\* the remote service is pending afterwards, the template request; and in every
\* step in which a template request succeeds, the template set becomes the
\* returned list.
C18_TemplatesRequestedWhenKeyPresent ==
  [][ /\ (KeyJustPresent(last') /\ length(currentTemplates) = 0) =>
           RemoteRequests(tasks') = RemoteRequests(tasks) + 1
      /\ "response" \in DOMAIN last' =>
           currentTemplates' = last'.newTemplates ]_vars

\* C18, the diverging case reached: the startup credential check reported a key
\* while the template set was empty, and no template request was issued: the call
\* ended on its credential check
C18_NoRequestAtStartup ==
  /\ Ended("loadInitialData", "hasKey")
  /\ apiKeySelected
  /\ length(currentTemplates) = 0
  /\ RemoteRequests(tasks) = 0
  /\ error = MsgNoKeyTemplates

\* C19: in every step in which editSticker or removeBackground succeeds, the
\* collection written has the length of the collection as it stood right before
\* the write, and at every index but the edited one the sticker that stood there.
C19_EditWritesCurrentCollection ==
  [][ ( /\ last'.op \in {"editSticker", "removeBackground"}
        /\ last'.br = "done" ) =>
        /\ Len(generatedStickers') = Len(generatedStickers)
        /\ \A j \in 1..Len(generatedStickers) :
             j # last'.task.index => generatedStickers'[j] = generatedStickers[j] ]_vars

\* C19, the diverging case reached: while removeBackground was pending, a re-run
\* of the startup load replaced the collection by the stored one, in which
\* another sticker is as it was before an earlier edit; the write of
\* removeBackground has put back the collection of the moment it was called,
\* with that other sticker as edited
C19_SnapshotOverwroteReload ==
  /\ Ended("removeBackground", "done")
  /\ storedLoads(storage)
  /\ last.current = SeqMap(rehydrateInitial, JSONparse(storage).items)
  /\ Len(generatedStickers) = Len(last.task.snapshot)
  /\ \E j \in 1..Len(generatedStickers) :
       /\ j # last.task.index
       /\ last.current[j] # last.task.snapshot[j]
       /\ generatedStickers[j] = last.task.snapshot[j]

\* The step is one of a regeneration of the templates: the call of
\* generateMoreTemplates from its button, the settlement of its request, or a
\* step of the startup load that the effect runs again
RegenerationStep(label) ==
  \/ label.op = "generateMoreTemplates"
  \/ (label.op = "loadInitialData" /\ label.rerun)

\* C20: in every step of a regeneration of the templates, the re-run of the
\* startup load included, the collection, the selected sticker index, the two
\* prompts and the busy flag are unchanged.
C20_RegenerationKeepsCollection ==
  [][ RegenerationStep(last') =>
        /\ generatedStickers' = generatedStickers
        /\ selectedStickerIndex' = selectedStickerIndex
        /\ prompt' = prompt
        /\ editPrompt' = editPrompt
        /\ loading' = loading ]_vars

\* C20, the diverging case reached: the regenerated templates changed the template
\* count, the effect ran the startup load again, and that load has replaced the
\* collection by the stored one
C20_RegenerationReloadedCollection ==
  /\ last.op = "loadInitialData"
  /\ last.rerun
  /\ last.loaded
  /\ last.changed
  /\ length(currentTemplates) > 0

\* The selection is empty, or names a sticker of the collection that is static
SelectionValid(stickers, index) ==
  \/ index = NoSelection
  \/ /\ index \in 1..Len(stickers)
     /\ ~stickers[index].isAnimated

\* C21: in every reachable state selectedStickerIndex is empty or the index of
\* a sticker that exists in the collection and is not animated, every step
\* that replaces or shrinks the collection resetting the selection.
C21_SelectionNamesStaticSticker ==
  SelectionValid(generatedStickers, selectedStickerIndex)

\* C21, the diverging case reached: the startup load has replaced the
\* collection by the stored one and has left the selection as it was, which
\* now names no sticker or an animated one
C21_LoadLeftSelectionBehind ==
  /\ last.op = "loadInitialData"
  /\ last.loaded
  /\ last.changed
  /\ selectedStickerIndex # NoSelection
  /\ ~SelectionValid(generatedStickers, selectedStickerIndex)

\* The four operations that set the busy flag
BusyOperations ==
  {"generateStickers", "generateAnimatedSticker", "editSticker", "removeBackground"}

\* label is the label of a step in which a run of one of the four operations that
\* had set the busy flag ends: with a result, with nothing produced, or in its
\* catch block
OperationEnded(label) ==
  /\ label.op \in BusyOperations
  /\ label.br \in {"done", "noImage", "noVideo", "resizeFailed", "rejected"}

\* C22: a run of generateStickers, generateAnimatedSticker, editSticker or
\* removeBackground that set the busy flag clears it in the step it ends in, on
\* success, on nothing produced and on a caught error; the busy flag is set only
\* while such an operation is in flight; and, every request being answered and
\* the video job reporting done at some time, a set busy flag is cleared at
\* some time.
C22_BusyFlagCleared ==
  /\ [][OperationEnded(last') => ~loading']_vars
  /\ [](loading => OperationsInFlight > 0)
  /\ (loading ~> ~loading)

\* C22, its case reached: an operation that had set the busy flag has ended
\* with nothing produced, or in its catch block, and the busy flag is cleared
C22_EndedWithoutResult ==
  /\ OperationEnded(last)
  /\ \/ last.br \in {"noImage", "noVideo", "resizeFailed", "rejected"}
     \/ last.op = "generateStickers" /\ last.outcome.images = 0
  /\ ~loading
  /\ OperationsInFlight = 0

====
